---- MODULE Spec2Model ----
(***************************************************************************)
(* A model of komihash.h version 5.10: the 64-bit hash function komihash,  *)
(* the PRNG komirand, and the streamed hashing (komihash_stream_init /     *)
(* _update / _final), together with the test-vector program testvec.c.     *)
(*                                                                         *)
(* Representation.  A uint64_t is a tuple of 8 bytes, a uint32_t a tuple   *)
(* of 4 bytes, index 1 holding the least significant byte (the value is    *)
(* sum w[i] * 2^(8*(i-1))); all arithmetic is carried out on the bytes, so *)
(* every operation keeps its exact width (mod 2^64, mod 2^32).  Memory is  *)
(* a sequence of bytes; a pointer is a 0-based offset into it, so that the *)
(* C expression p[ k ] is mem[ p + k + 1 ].  A build of the header is a    *)
(* record bc = [ le, B ]: KOMIHASH_LITTLE_ENDIAN and KOMIHASH_BUFSIZE.     *)
(***************************************************************************)
EXTENDS Integers, Sequences, FiniteSets, TLC

\* ------------------------------------------------------------ bit tables

Bit(a, k) == (a \div (2 ^ k)) % 2

\* a ^ b on 4-bit values.
XorNib ==
    [a \in 0..15 |-> [b \in 0..15 |->
        ((Bit(a, 0) + Bit(b, 0)) % 2)
        + 2 * ((Bit(a, 1) + Bit(b, 1)) % 2)
        + 4 * ((Bit(a, 2) + Bit(b, 2)) % 2)
        + 8 * ((Bit(a, 3) + Bit(b, 3)) % 2)]]

\* a & b on 4-bit values.
AndNib ==
    [a \in 0..15 |-> [b \in 0..15 |->
        (Bit(a, 0) * Bit(b, 0))
        + 2 * (Bit(a, 1) * Bit(b, 1))
        + 4 * (Bit(a, 2) * Bit(b, 2))
        + 8 * (Bit(a, 3) * Bit(b, 3))]]

XorTab ==
    [a \in 0..255 |-> [b \in 0..255 |->
        16 * XorNib[a \div 16][b \div 16] + XorNib[a % 16][b % 16]]]

XorByte(a, b) == XorTab[a][b]

AndByte(a, b) == 16 * AndNib[a \div 16][b \div 16] + AndNib[a % 16][b % 16]

OrByte(a, b) == a + b - AndByte(a, b)

\* ------------------------------------------------------------- sequencing

\* A C statement "const T x = v;" followed by statements that use x: v is
\* evaluated once, and F is applied to its value.
Let(v, F(_)) == CHOOSE y \in {F(x) : x \in {v}} : TRUE

\* The same for two variables.
Let2(u, v, F(_, _)) == CHOOSE y \in {F(a, b) : a \in {u}, b \in {v}} : TRUE

\* ------------------------------------------------------ 64-bit arithmetic

\* The uint64_t written 0xAABBCCDDEEFFGGHH, given by its bytes AA .. HH.
W(b7, b6, b5, b4, b3, b2, b1, b0) == <<b0, b1, b2, b3, b4, b5, b6, b7>>

Zero64 == <<0, 0, 0, 0, 0, 0, 0, 0>>

\* ( uint64_t ) 1
One64 == <<1, 0, 0, 0, 0, 0, 0, 0>>

\* u ^ v
Xor64(u, v) ==
    Let2(u, v, LAMBDA a, b :
        <<XorByte(a[1], b[1]), XorByte(a[2], b[2]), XorByte(a[3], b[3]),
          XorByte(a[4], b[4]), XorByte(a[5], b[5]), XorByte(a[6], b[6]),
          XorByte(a[7], b[7]), XorByte(a[8], b[8])>>)

\* u & v
And64(u, v) ==
    Let2(u, v, LAMBDA a, b :
        <<AndByte(a[1], b[1]), AndByte(a[2], b[2]), AndByte(a[3], b[3]),
          AndByte(a[4], b[4]), AndByte(a[5], b[5]), AndByte(a[6], b[6]),
          AndByte(a[7], b[7]), AndByte(a[8], b[8])>>)

\* u | v
Or64(u, v) ==
    Let2(u, v, LAMBDA a, b :
        <<OrByte(a[1], b[1]), OrByte(a[2], b[2]), OrByte(a[3], b[3]),
          OrByte(a[4], b[4]), OrByte(a[5], b[5]), OrByte(a[6], b[6]),
          OrByte(a[7], b[7]), OrByte(a[8], b[8])>>)

\* u + v (mod 2^64)
Add64(u, v) ==
    Let2(u, v, LAMBDA a, b :
        LET s1 == a[1] + b[1]
            s2 == a[2] + b[2] + (s1 \div 256)
            s3 == a[3] + b[3] + (s2 \div 256)
            s4 == a[4] + b[4] + (s3 \div 256)
            s5 == a[5] + b[5] + (s4 \div 256)
            s6 == a[6] + b[6] + (s5 \div 256)
            s7 == a[7] + b[7] + (s6 \div 256)
            s8 == a[8] + b[8] + (s7 \div 256)
        IN  <<s1 % 256, s2 % 256, s3 % 256, s4 % 256,
              s5 % 256, s6 % 256, s7 % 256, s8 % 256>>)

\* v >> s and v << s on uint64_t, for the shift counts the header uses
\* (multiples of 8 in 0..56; a count of 64 or more is undefined in C).
ShiftedByte(v, i) == IF i >= 1 /\ i <= 8 THEN v[i] ELSE 0

Shr64(v, s) ==
    Let2(v, s \div 8, LAMBDA a, k :
        <<ShiftedByte(a, 1 + k), ShiftedByte(a, 2 + k), ShiftedByte(a, 3 + k),
          ShiftedByte(a, 4 + k), ShiftedByte(a, 5 + k), ShiftedByte(a, 6 + k),
          ShiftedByte(a, 7 + k), ShiftedByte(a, 8 + k)>>)

Shl64(v, s) ==
    Let2(v, s \div 8, LAMBDA a, k :
        <<ShiftedByte(a, 1 - k), ShiftedByte(a, 2 - k), ShiftedByte(a, 3 - k),
          ShiftedByte(a, 4 - k), ShiftedByte(a, 5 - k), ShiftedByte(a, 6 - k),
          ShiftedByte(a, 7 - k), ShiftedByte(a, 8 - k)>>)

\* ( uint64_t ) of a uint32_t, and ( uint32_t ) of a uint64_t
U64(v32) == Let(v32, LAMBDA a : <<a[1], a[2], a[3], a[4], 0, 0, 0, 0>>)

U32(v64) == Let(v64, LAMBDA a : <<a[1], a[2], a[3], a[4]>>)

\* The columns of the schoolbook product of the bytes of u and v: column k
\* sums the products of weight 2^(8*(k-1)).
MulColumns(u, v) ==
    Let2(u, v, LAMBDA a, b :
        <<a[1] * b[1],
          a[1] * b[2] + a[2] * b[1],
          a[1] * b[3] + a[2] * b[2] + a[3] * b[1],
          a[1] * b[4] + a[2] * b[3] + a[3] * b[2] + a[4] * b[1],
          a[1] * b[5] + a[2] * b[4] + a[3] * b[3] + a[4] * b[2] + a[5] * b[1],
          a[1] * b[6] + a[2] * b[5] + a[3] * b[4] + a[4] * b[3] + a[5] * b[2]
              + a[6] * b[1],
          a[1] * b[7] + a[2] * b[6] + a[3] * b[5] + a[4] * b[4] + a[5] * b[3]
              + a[6] * b[2] + a[7] * b[1],
          a[1] * b[8] + a[2] * b[7] + a[3] * b[6] + a[4] * b[5] + a[5] * b[4]
              + a[6] * b[3] + a[7] * b[2] + a[8] * b[1],
          a[2] * b[8] + a[3] * b[7] + a[4] * b[6] + a[5] * b[5] + a[6] * b[4]
              + a[7] * b[3] + a[8] * b[2],
          a[3] * b[8] + a[4] * b[7] + a[5] * b[6] + a[6] * b[5] + a[7] * b[4]
              + a[8] * b[3],
          a[4] * b[8] + a[5] * b[7] + a[6] * b[6] + a[7] * b[5] + a[8] * b[4],
          a[5] * b[8] + a[6] * b[7] + a[7] * b[6] + a[8] * b[5],
          a[6] * b[8] + a[7] * b[7] + a[8] * b[6],
          a[7] * b[8] + a[8] * b[7],
          a[8] * b[8]>>)

\* ( unsigned __int128 ) u * v, as 16 bytes: each column takes the carry of the
\* one before.
Mul128(u, v) ==
    Let(MulColumns(u, v), LAMBDA c :
        LET t1 == c[1]
            t2 == (t1 \div 256) + c[2]
            t3 == (t2 \div 256) + c[3]
            t4 == (t3 \div 256) + c[4]
            t5 == (t4 \div 256) + c[5]
            t6 == (t5 \div 256) + c[6]
            t7 == (t6 \div 256) + c[7]
            t8 == (t7 \div 256) + c[8]
            t9 == (t8 \div 256) + c[9]
            t10 == (t9 \div 256) + c[10]
            t11 == (t10 \div 256) + c[11]
            t12 == (t11 \div 256) + c[12]
            t13 == (t12 \div 256) + c[13]
            t14 == (t13 \div 256) + c[14]
            t15 == (t14 \div 256) + c[15]
            t16 == t15 \div 256
        IN  <<t1 % 256, t2 % 256, t3 % 256, t4 % 256,
              t5 % 256, t6 % 256, t7 % 256, t8 % 256,
              t9 % 256, t10 % 256, t11 % 256, t12 % 256,
              t13 % 256, t14 % 256, t15 % 256, t16 % 256>>)

\* ( uint64_t ) r and ( uint64_t ) ( r >> 64 ) of a 128-bit r.
Lo64(r) == <<r[1], r[2], r[3], r[4], r[5], r[6], r[7], r[8]>>

Hi64(r) == <<r[9], r[10], r[11], r[12], r[13], r[14], r[15], r[16]>>

\* ---------------------------------------------------------------- loaders

\* memcpy( &v, p, n ): the n bytes at p as the host sees the variable v.
NativeLoad(mem, p, n, bc) ==
    IF n = 4
    THEN IF bc.le THEN <<mem[p + 1], mem[p + 2], mem[p + 3], mem[p + 4]>>
                  ELSE <<mem[p + 4], mem[p + 3], mem[p + 2], mem[p + 1]>>
    ELSE IF bc.le THEN <<mem[p + 1], mem[p + 2], mem[p + 3], mem[p + 4],
                         mem[p + 5], mem[p + 6], mem[p + 7], mem[p + 8]>>
                  ELSE <<mem[p + 8], mem[p + 7], mem[p + 6], mem[p + 5],
                         mem[p + 4], mem[p + 3], mem[p + 2], mem[p + 1]>>

\* KOMIHASH_EC32( v ): the identity on a little-endian host, else a byte swap.
KOMIHASH_EC32(v, bc) ==
    IF bc.le THEN v ELSE Let(v, LAMBDA a : <<a[4], a[3], a[2], a[1]>>)

\* A mutant of KOMIHASH_EC64: the bytes of each 32-bit half are swapped, the
\* halves are not exchanged.
KOMIHASH_EC64_halves(v, bc) ==
    IF bc.le THEN v
    ELSE Let(v, LAMBDA a : <<a[4], a[3], a[2], a[1], a[8], a[7], a[6], a[5]>>)

\* KOMIHASH_EC64( v )
KOMIHASH_EC64(v, bc) ==
    IF bc.le THEN v
    ELSE Let(v, LAMBDA a : <<a[8], a[7], a[6], a[5], a[4], a[3], a[2], a[1]>>)

kh_lu32ec(mem, p, bc) == KOMIHASH_EC32(NativeLoad(mem, p, 4, bc), bc)

kh_lu64ec(mem, p, bc) == KOMIHASH_EC64(NativeLoad(mem, p, 8, bc), bc)

\* ( uint64_t ) Msg[ k ]
ByteAt(mem, p, k) == <<mem[p + k + 1], 0, 0, 0, 0, 0, 0, 0>>

\* A mutant of kh_lpu64ec_l3: below 4 bytes, the three bytes at Msg are read
\* forwards and are not cut to the length.
kh_lpu64ec_l3_unmasked(mem, Msg, MsgLen, bc) ==
    LET ml8 == MsgLen * 8 IN
    IF MsgLen < 4
    THEN LET m == Or64(Or64(ByteAt(mem, Msg, 0), Shl64(ByteAt(mem, Msg, 1), 8)),
                       Shl64(ByteAt(mem, Msg, 2), 16))
         IN  Or64(Shl64(One64, ml8), m)
    ELSE LET mh == U64(kh_lu32ec(mem, Msg + MsgLen - 4, bc))
             ml == U64(kh_lu32ec(mem, Msg, bc))
         IN  Or64(Or64(Shl64(One64, ml8), ml), Shl64(Shr64(mh, 64 - ml8), 32))

kh_lpu64ec_l3(mem, Msg, MsgLen, bc) ==
    LET ml8 == MsgLen * 8 IN
    IF MsgLen < 4
    THEN LET Msg3 == Msg + MsgLen - 3
             m == Or64(Or64(ByteAt(mem, Msg3, 0), Shl64(ByteAt(mem, Msg3, 1), 8)),
                       Shl64(ByteAt(mem, Msg3, 2), 16))
         IN  Or64(Shl64(One64, ml8), Shr64(m, 24 - ml8))
    ELSE LET mh == U64(kh_lu32ec(mem, Msg + MsgLen - 4, bc))
             ml == U64(kh_lu32ec(mem, Msg, bc))
         IN  Or64(Or64(Shl64(One64, ml8), ml), Shl64(Shr64(mh, 64 - ml8), 32))

\* A mutant of kh_lpu64ec_nz: a tail shorter than 4 bytes gets no final byte.
kh_lpu64ec_nz_unmarked(mem, Msg, MsgLen, bc) ==
    LET ml8 == MsgLen * 8 IN
    IF MsgLen < 4
    THEN LET m0 == ByteAt(mem, Msg, 0)
             m1 == IF MsgLen > 1 THEN Or64(m0, Shl64(ByteAt(mem, Msg, 1), 8)) ELSE m0
             m == IF MsgLen > 1 /\ MsgLen > 2
                     THEN Or64(m1, Shl64(ByteAt(mem, Msg, 2), 16)) ELSE m1
         IN  m
    ELSE LET mh == U64(kh_lu32ec(mem, Msg + MsgLen - 4, bc))
             ml == U64(kh_lu32ec(mem, Msg, bc))
         IN  Or64(Or64(Shl64(One64, ml8), ml), Shl64(Shr64(mh, 64 - ml8), 32))

kh_lpu64ec_nz(mem, Msg, MsgLen, bc) ==
    LET ml8 == MsgLen * 8 IN
    IF MsgLen < 4
    THEN LET m0 == ByteAt(mem, Msg, 0)
             m1 == IF MsgLen > 1 THEN Or64(m0, Shl64(ByteAt(mem, Msg, 1), 8)) ELSE m0
             m == IF MsgLen > 1 /\ MsgLen > 2
                     THEN Or64(m1, Shl64(ByteAt(mem, Msg, 2), 16)) ELSE m1
         IN  Or64(Shl64(One64, ml8), m)
    ELSE LET mh == U64(kh_lu32ec(mem, Msg + MsgLen - 4, bc))
             ml == U64(kh_lu32ec(mem, Msg, bc))
         IN  Or64(Or64(Shl64(One64, ml8), ml), Shl64(Shr64(mh, 64 - ml8), 32))

\* A mutant of kh_lpu64ec_l4: a tail of 5 to 7 bytes is shifted one byte
\* short, so that the byte before the tail stays in the value.
kh_lpu64ec_l4_short(mem, Msg, MsgLen, bc) ==
    LET ml8 == MsgLen * 8 IN
    IF MsgLen < 5
    THEN LET m == U64(kh_lu32ec(mem, Msg + MsgLen - 4, bc))
         IN  Or64(Shl64(One64, ml8), Shr64(m, 32 - ml8))
    ELSE LET m == kh_lu64ec(mem, Msg + MsgLen - 8, bc)
         IN  Or64(Shl64(One64, ml8), Shr64(m, 56 - ml8))

kh_lpu64ec_l4(mem, Msg, MsgLen, bc) ==
    LET ml8 == MsgLen * 8 IN
    IF MsgLen < 5
    THEN LET m == U64(kh_lu32ec(mem, Msg + MsgLen - 4, bc))
         IN  Or64(Shl64(One64, ml8), Shr64(m, 32 - ml8))
    ELSE LET m == kh_lu64ec(mem, Msg + MsgLen - 8, bc)
         IN  Or64(Shl64(One64, ml8), Shr64(m, 64 - ml8))

\* ----------------------------------------------------------------- rounds

\* kh_m128( u, v, &rl, &rha ): the pair << *rl, *rha >> after the call, given
\* the accumulator's value rha before it.
kh_m128(u, v, rha) ==
    Let(Mul128(u, v), LAMBDA r : <<Lo64(r), Add64(rha, Hi64(r))>>)

\* u * v on uint64_t (mod 2^64).
Mul64(u, v) == Lo64(Mul128(u, v))

\* The compiler's __umulh( u, v ) and __mulhdu( u, v ): the high 64 bits of
\* the 128-bit product.
umulh(u, v) == Hi64(Mul128(u, v))

\* The compiler's _umul128( u, v, &rh ): << the value returned, rh >>.
umul128(u, v) == Let(Mul128(u, v), LAMBDA r : <<Lo64(r), Hi64(r)>>)

\* kh_m128 where __umulh or __mulhdu is at hand.
kh_m128_umulh(u, v, rha) == <<Mul64(u, v), Add64(rha, umulh(u, v))>>

\* kh_m128 where _umul128 is at hand.
kh_m128_umul128(u, v, rha) ==
    Let(umul128(u, v), LAMBDA r : <<r[1], Add64(rha, r[2])>>)

\* KOMIHASH_EMULU( u, v ) on two uint32_t: ( uint64_t ) u * v.
KOMIHASH_EMULU(u, v) == Mul64(U64(u), U64(v))

\* A mutant of kh_m128_emulu: the high half of t is not added.
kh_m128_emulu_drops(u, v, rha) ==
    Let2(U32(u), U32(v), LAMBDA u0, v0 :
    Let2(U32(Shr64(u, 32)), U32(Shr64(v, 32)), LAMBDA u1, v1 :
    Let(KOMIHASH_EMULU(u0, v0), LAMBDA w0 :
    Let(Add64(KOMIHASH_EMULU(u1, v0), U64(U32(Shr64(w0, 32)))), LAMBDA t :
    Let(Add64(KOMIHASH_EMULU(u0, v1), U64(U32(t))), LAMBDA w1 :
        <<Mul64(u, v),
          Add64(rha, Add64(KOMIHASH_EMULU(u1, v1), U64(U32(Shr64(w1, 32)))))>>)))))

\* kh_m128 for 32-bit systems, from four 32-bit by 32-bit products.
kh_m128_emulu(u, v, rha) ==
    Let2(U32(u), U32(v), LAMBDA u0, v0 :
    Let2(U32(Shr64(u, 32)), U32(Shr64(v, 32)), LAMBDA u1, v1 :
    Let(KOMIHASH_EMULU(u0, v0), LAMBDA w0 :
    Let(Add64(KOMIHASH_EMULU(u1, v0), U64(U32(Shr64(w0, 32)))), LAMBDA t :
    Let(Add64(KOMIHASH_EMULU(u0, v1), U64(U32(t))), LAMBDA w1 :
        <<Mul64(u, v),
          Add64(rha, Add64(Add64(KOMIHASH_EMULU(u1, v1), U64(U32(Shr64(w1, 32)))),
                           U64(U32(Shr64(t, 32)))))>>)))))

\* The two statements every round macro ends in: kh_m128( u, v, &Seed1,
\* &Seed5 ); Seed1 ^= Seed5;  The result is << Seed1, Seed5 >>.
MulFold(u, v, Seed5) ==
    Let(kh_m128(u, v, Seed5), LAMBDA r : <<Xor64(r[1], r[2]), r[2]>>)

KOMIHASH_HASHROUND(Seed1, Seed5) ==
    Let(Seed5, LAMBDA s5 : MulFold(Seed1, s5, s5))

\* A mutant of KOMIHASH_HASH16: Seed5 is XORed with the message in place, so
\* the product's high half is added to Seed5 ^ kh_lu64ec( m + 8 ).
KOMIHASH_HASH16_inplace(mem, m, Seed1, Seed5, bc) ==
    Let(Xor64(Seed5, kh_lu64ec(mem, m + 8, bc)), LAMBDA s5 :
        MulFold(Xor64(Seed1, kh_lu64ec(mem, m, bc)), s5, s5))

KOMIHASH_HASH16(mem, m, Seed1, Seed5, bc) ==
    Let(Seed5, LAMBDA s5 :
        MulFold(Xor64(Seed1, kh_lu64ec(mem, m, bc)),
                Xor64(s5, kh_lu64ec(mem, m + 8, bc)), s5))

\* The value KOMIHASH_HASHFIN() returns.
KOMIHASH_HASHFIN(r1h, r2h, Seed5) ==
    Let(MulFold(r1h, r2h, Seed5), LAMBDA a : KOMIHASH_HASHROUND(a[1], a[2])[1])

\* One pass of the body of KOMIHASH_HASHLOOP64 on the lanes S = << Seed1, ..,
\* Seed8 >> at Msg: the lanes after the four multiplications and the four XORs.
LoopBody(mem, Msg, S, bc) ==
    Let2(kh_m128(Xor64(S[1], kh_lu64ec(mem, Msg, bc)),
                 Xor64(S[5], kh_lu64ec(mem, Msg + 32, bc)), S[5]),
         kh_m128(Xor64(S[2], kh_lu64ec(mem, Msg + 8, bc)),
                 Xor64(S[6], kh_lu64ec(mem, Msg + 40, bc)), S[6]),
         LAMBDA a, b :
    Let2(kh_m128(Xor64(S[3], kh_lu64ec(mem, Msg + 16, bc)),
                 Xor64(S[7], kh_lu64ec(mem, Msg + 48, bc)), S[7]),
         kh_m128(Xor64(S[4], kh_lu64ec(mem, Msg + 24, bc)),
                 Xor64(S[8], kh_lu64ec(mem, Msg + 56, bc)), S[8]),
         LAMBDA c, d :
        <<Xor64(a[1], d[2]), Xor64(b[1], a[2]), Xor64(c[1], b[2]), Xor64(d[1], c[2]),
          a[2], b[2], c[2], d[2]>>))

\* The variables KOMIHASH_HASHLOOP64 uses, where the macro is expanded: Msg,
\* MsgLen and the lanes S = << Seed1, .., Seed8 >>.  With them go the record
\* of what the loop does: blocks, the value of Msg at each run of the body in
\* the order of the runs, and wrapped, whether "MsgLen -= 64" was done on a
\* MsgLen below 64.
LoopVars(Msg, MsgLen, S) ==
    [Msg |-> Msg, MsgLen |-> MsgLen, S |-> S, blocks |-> <<>>, wrapped |-> FALSE]

\* A mutant of KOMIHASH_HASHLOOP64: the loop goes on while MsgLen > 64, and so
\* leaves a whole block when the length is a multiple of 64.
RECURSIVE KOMIHASH_HASHLOOP64_above64(_, _, _)
KOMIHASH_HASHLOOP64_above64(mem, st, bc) ==
    Let([Msg |-> st.Msg + 64, MsgLen |-> st.MsgLen - 64,
         S |-> LoopBody(mem, st.Msg, st.S, bc),
         blocks |-> Append(st.blocks, st.Msg),
         wrapped |-> st.wrapped \/ st.MsgLen < 64],
        LAMBDA st2 :
            IF st2.MsgLen > 64 /\ ~st2.wrapped
            THEN KOMIHASH_HASHLOOP64_above64(mem, st2, bc) ELSE st2)

\* KOMIHASH_HASHLOOP64() on the variables st: a do-while, so the body runs
\* before MsgLen is tested.  The result is the same variables after the loop.
\* MsgLen is a size_t: from below 64 the subtraction wraps around to a value
\* above 63, and the loop goes on to read far beyond the message; the model
\* records the wrap and follows the loop no further.
RECURSIVE KOMIHASH_HASHLOOP64(_, _, _)
KOMIHASH_HASHLOOP64(mem, st, bc) ==
    Let([Msg |-> st.Msg + 64, MsgLen |-> st.MsgLen - 64,
         S |-> LoopBody(mem, st.Msg, st.S, bc),
         blocks |-> Append(st.blocks, st.Msg),
         wrapped |-> st.wrapped \/ st.MsgLen < 64],
        LAMBDA st2 :
            IF st2.MsgLen > 63 /\ ~st2.wrapped
            THEN KOMIHASH_HASHLOOP64(mem, st2, bc) ELSE st2)

\* One expansion of KOMIHASH_HASHLOOP64 as it went: in which function (site)
\* and over which memory (src), Msg and MsgLen when the loop was entered, and
\* r, the variables when it was left.
LoopRun(site, src, Msg, MsgLen, r) ==
    [site |-> site, src |-> src, Msg |-> Msg, MsgLen |-> MsgLen,
     blocks |-> r.blocks, left |-> r.MsgLen, wrapped |-> r.wrapped]

\* ------------------------------------------------------------- the hashes

\* A mutant of komihash_epi: the "if( MsgLen > 31 )" block runs
\* KOMIHASH_HASH16 once, not twice, and still advances by 32 bytes.
komihash_epi_once(mem, Msg, MsgLen, Seed1, Seed5, bc) ==
    Let(IF MsgLen > 31
        THEN [Msg |-> Msg + 32, MsgLen |-> MsgLen - 32,
              s |-> KOMIHASH_HASH16(mem, Msg, Seed1, Seed5, bc)]
        ELSE [Msg |-> Msg, MsgLen |-> MsgLen, s |-> <<Seed1, Seed5>>],
        LAMBDA v1 :
    Let(IF v1.MsgLen > 15
        THEN [Msg |-> v1.Msg + 16, MsgLen |-> v1.MsgLen - 16,
              s |-> KOMIHASH_HASH16(mem, v1.Msg, v1.s[1], v1.s[2], bc)]
        ELSE v1,
        LAMBDA v :
    IF v.MsgLen > 7
    THEN KOMIHASH_HASHFIN(Xor64(v.s[1], kh_lu64ec(mem, v.Msg, bc)),
             Xor64(v.s[2], kh_lpu64ec_l4(mem, v.Msg + 8, v.MsgLen - 8, bc)), v.s[2])
    ELSE KOMIHASH_HASHFIN(Xor64(v.s[1], kh_lpu64ec_l4(mem, v.Msg, v.MsgLen, bc)),
             v.s[2], v.s[2])))

\* komihash_epi().  Its variables v = [ Msg, MsgLen, s ], s = << Seed1, Seed5 >>,
\* after the "if( MsgLen > 31 )" and then after the "if( MsgLen > 15 )".
komihash_epi(mem, Msg, MsgLen, Seed1, Seed5, bc) ==
    Let(IF MsgLen > 31
        THEN Let(KOMIHASH_HASH16(mem, Msg, Seed1, Seed5, bc), LAMBDA h :
                 [Msg |-> Msg + 32, MsgLen |-> MsgLen - 32,
                  s |-> KOMIHASH_HASH16(mem, Msg + 16, h[1], h[2], bc)])
        ELSE [Msg |-> Msg, MsgLen |-> MsgLen, s |-> <<Seed1, Seed5>>],
        LAMBDA v1 :
    Let(IF v1.MsgLen > 15
        THEN [Msg |-> v1.Msg + 16, MsgLen |-> v1.MsgLen - 16,
              s |-> KOMIHASH_HASH16(mem, v1.Msg, v1.s[1], v1.s[2], bc)]
        ELSE v1,
        LAMBDA v :
    IF v.MsgLen > 7
    THEN KOMIHASH_HASHFIN(Xor64(v.s[1], kh_lu64ec(mem, v.Msg, bc)),
             Xor64(v.s[2], kh_lpu64ec_l4(mem, v.Msg + 8, v.MsgLen - 8, bc)), v.s[2])
    ELSE KOMIHASH_HASHFIN(Xor64(v.s[1], kh_lpu64ec_l4(mem, v.Msg, v.MsgLen, bc)),
             v.s[2], v.s[2])))

\* The lane constants and the seed masks.
PI1 == W(36, 63, 106, 136, 133, 163, 8, 211)     \* 0x243F6A8885A308D3
PI2 == W(19, 25, 138, 46, 3, 112, 115, 68)       \* 0x13198A2E03707344
PI3 == W(164, 9, 56, 34, 41, 159, 49, 208)       \* 0xA4093822299F31D0
PI4 == W(8, 46, 250, 152, 236, 78, 108, 137)     \* 0x082EFA98EC4E6C89
PI5 == W(69, 40, 33, 230, 56, 208, 19, 119)      \* 0x452821E638D01377
PI6 == W(190, 84, 102, 207, 52, 233, 12, 108)    \* 0xBE5466CF34E90C6C
PI7 == W(192, 172, 41, 183, 201, 124, 80, 221)   \* 0xC0AC29B7C97C50DD
PI8 == W(63, 132, 213, 181, 181, 71, 9, 23)      \* 0x3F84D5B5B5470917
MASK5 == W(85, 85, 85, 85, 85, 85, 85, 85)       \* 0x5555555555555555
MASKA == W(170, 170, 170, 170, 170, 170, 170, 170) \* 0xAAAAAAAAAAAAAAAA

\* Seed1 and Seed5 as komihash and komihash_stream_update initialise them,
\* after the first KOMIHASH_HASHROUND().
SeedInit(UseSeed) ==
    Let(UseSeed, LAMBDA u :
        KOMIHASH_HASHROUND(Xor64(PI1, And64(u, MASK5)), Xor64(PI5, And64(u, MASKA))))

\* The eight lanes derived from << Seed1, Seed5 >>.
Lanes(s0) ==
    Let(s0, LAMBDA s :
        <<s[1], Xor64(PI2, s[1]), Xor64(PI3, s[1]), Xor64(PI4, s[1]),
          s[2], Xor64(PI6, s[2]), Xor64(PI7, s[2]), Xor64(PI8, s[2])>>)

\* Seed5 ^= Seed6 ^ Seed7 ^ Seed8; Seed1 ^= Seed2 ^ Seed3 ^ Seed4;
FoldLanes(S) ==
    <<Xor64(S[1], Xor64(Xor64(S[2], S[3]), S[4])),
      Xor64(S[5], Xor64(Xor64(S[6], S[7]), S[8]))>>

\* A mutant of komihash: an empty message is finished like a tail of no
\* bytes, with the final-byte mark 1 << 0 mixed into r1h.
komihash_marks_empty(mem, Msg, MsgLen, UseSeed, bc) ==
    Let(SeedInit(UseSeed), LAMBDA s :
    IF MsgLen < 16
    THEN IF MsgLen > 7
         THEN KOMIHASH_HASHFIN(Xor64(s[1], kh_lu64ec(mem, Msg, bc)),
                  Xor64(s[2], kh_lpu64ec_l3(mem, Msg + 8, MsgLen - 8, bc)), s[2])
         ELSE IF MsgLen /= 0
         THEN KOMIHASH_HASHFIN(Xor64(s[1], kh_lpu64ec_nz(mem, Msg, MsgLen, bc)),
                  s[2], s[2])
         ELSE KOMIHASH_HASHFIN(Xor64(s[1], One64), s[2], s[2])
    ELSE IF MsgLen < 32
    THEN Let(KOMIHASH_HASH16(mem, Msg, s[1], s[2], bc), LAMBDA h :
         IF MsgLen > 23
         THEN KOMIHASH_HASHFIN(Xor64(h[1], kh_lu64ec(mem, Msg + 16, bc)),
                  Xor64(h[2], kh_lpu64ec_l4(mem, Msg + 24, MsgLen - 24, bc)), h[2])
         ELSE KOMIHASH_HASHFIN(Xor64(h[1], kh_lpu64ec_l4(mem, Msg + 16, MsgLen - 16, bc)),
                  h[2], h[2]))
    ELSE IF MsgLen > 63
    THEN Let(KOMIHASH_HASHLOOP64(mem, LoopVars(Msg, MsgLen, Lanes(s)), bc),
             LAMBDA r :
         Let(FoldLanes(r.S), LAMBDA f :
             komihash_epi(mem, r.Msg, r.MsgLen, f[1], f[2], bc)))
    ELSE komihash_epi(mem, Msg, MsgLen, s[1], s[2], bc))

\* A mutant of komihash_run: for 24 to 31 bytes, the padded tail goes into
\* r1h and the eight bytes before it into r2h.
komihash_run_swapped(mem, Msg, MsgLen, UseSeed, bc) ==
    Let(SeedInit(UseSeed), LAMBDA s :
    IF MsgLen < 16
    THEN [runs |-> <<>>, ret |->
         IF MsgLen > 7
         THEN KOMIHASH_HASHFIN(Xor64(s[1], kh_lu64ec(mem, Msg, bc)),
                  Xor64(s[2], kh_lpu64ec_l3(mem, Msg + 8, MsgLen - 8, bc)), s[2])
         ELSE IF MsgLen /= 0
         THEN KOMIHASH_HASHFIN(Xor64(s[1], kh_lpu64ec_nz(mem, Msg, MsgLen, bc)),
                  s[2], s[2])
         ELSE KOMIHASH_HASHFIN(s[1], s[2], s[2])]
    ELSE IF MsgLen < 32
    THEN [runs |-> <<>>, ret |->
         Let(KOMIHASH_HASH16(mem, Msg, s[1], s[2], bc), LAMBDA h :
         IF MsgLen > 23
         THEN KOMIHASH_HASHFIN(Xor64(h[1], kh_lpu64ec_l4(mem, Msg + 24, MsgLen - 24, bc)),
                  Xor64(h[2], kh_lu64ec(mem, Msg + 16, bc)), h[2])
         ELSE KOMIHASH_HASHFIN(Xor64(h[1], kh_lpu64ec_l4(mem, Msg + 16, MsgLen - 16, bc)),
                  h[2], h[2]))]
    ELSE IF MsgLen > 63
    THEN Let(KOMIHASH_HASHLOOP64(mem, LoopVars(Msg, MsgLen, Lanes(s)), bc),
             LAMBDA r :
         Let(FoldLanes(r.S), LAMBDA f :
             [runs |-> <<LoopRun("komihash", "Msg0", Msg, MsgLen, r)>>,
              ret |-> komihash_epi(mem, r.Msg, r.MsgLen, f[1], f[2], bc)]))
    ELSE [runs |-> <<>>, ret |-> komihash_epi(mem, Msg, MsgLen, s[1], s[2], bc)])

\* komihash( Msg, MsgLen, UseSeed ) over the memory mem: the value returned,
\* and the expansions of KOMIHASH_HASHLOOP64 that ran.
komihash_run(mem, Msg, MsgLen, UseSeed, bc) ==
    Let(SeedInit(UseSeed), LAMBDA s :
    IF MsgLen < 16
    THEN [runs |-> <<>>, ret |->
         IF MsgLen > 7
         THEN KOMIHASH_HASHFIN(Xor64(s[1], kh_lu64ec(mem, Msg, bc)),
                  Xor64(s[2], kh_lpu64ec_l3(mem, Msg + 8, MsgLen - 8, bc)), s[2])
         ELSE IF MsgLen /= 0
         THEN KOMIHASH_HASHFIN(Xor64(s[1], kh_lpu64ec_nz(mem, Msg, MsgLen, bc)),
                  s[2], s[2])
         ELSE KOMIHASH_HASHFIN(s[1], s[2], s[2])]
    ELSE IF MsgLen < 32
    THEN [runs |-> <<>>, ret |->
         Let(KOMIHASH_HASH16(mem, Msg, s[1], s[2], bc), LAMBDA h :
         IF MsgLen > 23
         THEN KOMIHASH_HASHFIN(Xor64(h[1], kh_lu64ec(mem, Msg + 16, bc)),
                  Xor64(h[2], kh_lpu64ec_l4(mem, Msg + 24, MsgLen - 24, bc)), h[2])
         ELSE KOMIHASH_HASHFIN(Xor64(h[1], kh_lpu64ec_l4(mem, Msg + 16, MsgLen - 16, bc)),
                  h[2], h[2]))]
    ELSE IF MsgLen > 63
    THEN Let(KOMIHASH_HASHLOOP64(mem, LoopVars(Msg, MsgLen, Lanes(s)), bc),
             LAMBDA r :
         Let(FoldLanes(r.S), LAMBDA f :
             [runs |-> <<LoopRun("komihash", "Msg0", Msg, MsgLen, r)>>,
              ret |-> komihash_epi(mem, r.Msg, r.MsgLen, f[1], f[2], bc)]))
    ELSE [runs |-> <<>>, ret |-> komihash_epi(mem, Msg, MsgLen, s[1], s[2], bc)])

komihash(mem, Msg, MsgLen, UseSeed, bc) ==
    komihash_run(mem, Msg, MsgLen, UseSeed, bc).ret

\* A mutant of komirand: Seed1 is XORed with Seed2 before the constant is
\* added to Seed2.
komirand_xor_first(Seed1, Seed2) ==
    Let(kh_m128(Seed1, Seed2, Seed2), LAMBDA r :
    Let(Xor64(r[1], r[2]), LAMBDA s1 :
    Let(Add64(r[2], MASKA), LAMBDA s2 :
        [ret |-> s1, Seed1 |-> s1, Seed2 |-> s2])))

\* komirand( &Seed1, &Seed2 ): the value returned and the two seeds after the
\* call.
komirand(Seed1, Seed2) ==
    Let(kh_m128(Seed1, Seed2, Seed2), LAMBDA r :
    Let(Add64(r[2], MASKA), LAMBDA s2 :
    Let(Xor64(r[1], s2), LAMBDA s1 :
        [ret |-> s1, Seed1 |-> s1, Seed2 |-> s2])))

\* ------------------------------------------------------ streamed hashing

\* KOMIHASH_BUFSIZE as the header defines it when the build does not, and the
\* least value the header allows ("a multiple of 64, and not less than 128").
KOMIHASH_BUFSIZE == 768

MinBufSize == 128

\* sizeof( pb ): Buf starts this many bytes into komihash_stream_t.
PbSize == 8

\* komihash_stream_t.  mem holds pb[ 8 ] followed by Buf[ B ], which the
\* structure lays out one after the other; Seed is Seed[ 0 .. 7 ].
BufPtr == PbSize

pb(ctx) == SubSeq(ctx.mem, 1, PbSize)

Buf(ctx) == SubSeq(ctx.mem, PbSize + 1, Len(ctx.mem))

\* memcpy( dst + d, src + s, n )
memcpy(dst, d, src, s, n) ==
    [i \in 1..Len(dst) |-> IF i > d /\ i <= d + n THEN src[s + i - d] ELSE dst[i]]

\* A mutant of komihash_stream_init: IsHashing is left as it was.
komihash_stream_init_keeps(ctx, UseSeed) ==
    [ctx EXCEPT !.Seed[1] = UseSeed, !.BufFill = 0]

komihash_stream_init(ctx, UseSeed) ==
    [ctx EXCEPT !.Seed[1] = UseSeed, !.BufFill = 0, !.IsHashing = 0]

\* The lanes the bulk loop of komihash_stream_update starts from: those of the
\* context when hashing has started, else the ones derived from the seed.
UpdateLanes(ctx) ==
    IF ctx.IsHashing /= 0 THEN ctx.Seed ELSE Lanes(SeedInit(ctx.Seed[1]))

\* A mutant of UpdateLoop: after the bulk loop over the filled buffer, the rest
\* of the caller's input (SwMsg) is taken up only when it is long enough for
\* another run of the bulk loop, and is dropped when it is shorter.
UpdateLoopDropsRest(st, Msg0, bc) ==
    IF ~(st.MsgLen > 127) THEN st
    ELSE
    Let(KOMIHASH_HASHLOOP64(IF st.src = "Buf" THEN st.ctx.mem ELSE Msg0,
                            LoopVars(st.Msg, st.MsgLen, UpdateLanes(st.ctx)), bc),
        LAMBDA r :
    Let([st EXCEPT !.ctx = [@ EXCEPT !.IsHashing = IF @ /= 0 THEN @ ELSE 1,
                                     !.Seed = r.S],
                   !.runs = Append(@, LoopRun("update", st.src, st.Msg, st.MsgLen, r))],
        LAMBDA st1 :
    IF st.SwMsgLen = 0
    THEN IF r.MsgLen /= 0
         THEN [st1 EXCEPT !.Msg = r.Msg, !.MsgLen = r.MsgLen]
         ELSE [st1 EXCEPT !.ctx = [@ EXCEPT !.BufFill = 0], !.Msg = r.Msg,
                          !.MsgLen = r.MsgLen, !.returned = TRUE]
    ELSE Let(IF st.SwMsgLen > 127
             THEN KOMIHASH_HASHLOOP64(Msg0, LoopVars(st.SwMsg, st.SwMsgLen, r.S), bc)
             ELSE [Msg |-> st.SwMsg, MsgLen |-> 0, S |-> r.S],
             LAMBDA r2 :
                 [st1 EXCEPT !.ctx = [@ EXCEPT !.Seed = r2.S], !.src = "Msg0",
                             !.Msg = r2.Msg, !.MsgLen = r2.MsgLen, !.SwMsgLen = 0])))

\* A mutant of UpdateLoop: the loop is entered with more than 63 bytes, as the
\* bulk loop of komihash is, not with more than 127.
RECURSIVE UpdateLoopFrom64(_, _, _)
UpdateLoopFrom64(st, Msg0, bc) ==
    IF ~(st.MsgLen > 63) THEN st
    ELSE
    Let(KOMIHASH_HASHLOOP64(IF st.src = "Buf" THEN st.ctx.mem ELSE Msg0,
                            LoopVars(st.Msg, st.MsgLen, UpdateLanes(st.ctx)), bc),
        LAMBDA r :
    Let([st EXCEPT !.ctx = [@ EXCEPT !.IsHashing = IF @ /= 0 THEN @ ELSE 1,
                                     !.Seed = r.S],
                   !.runs = Append(@, LoopRun("update", st.src, st.Msg, st.MsgLen, r))],
        LAMBDA st1 :
    IF st.SwMsgLen = 0
    THEN IF r.MsgLen /= 0
         THEN [st1 EXCEPT !.Msg = r.Msg, !.MsgLen = r.MsgLen]
         ELSE [st1 EXCEPT !.ctx = [@ EXCEPT !.BufFill = 0], !.Msg = r.Msg,
                          !.MsgLen = r.MsgLen, !.returned = TRUE]
    ELSE Let([st1 EXCEPT !.src = "Msg0", !.Msg = st.SwMsg,
                         !.MsgLen = st.SwMsgLen, !.SwMsgLen = 0],
             LAMBDA st2 : UpdateLoopFrom64(st2, Msg0, bc))))

\* A mutant of UpdateLoop: "ctx -> IsHashing = 1" is left out.
RECURSIVE UpdateLoopNoFlag(_, _, _)
UpdateLoopNoFlag(st, Msg0, bc) ==
    IF ~(st.MsgLen > 127) THEN st
    ELSE
    Let(KOMIHASH_HASHLOOP64(IF st.src = "Buf" THEN st.ctx.mem ELSE Msg0,
                            LoopVars(st.Msg, st.MsgLen, UpdateLanes(st.ctx)), bc),
        LAMBDA r :
    Let([st EXCEPT !.ctx = [@ EXCEPT !.Seed = r.S],
                   !.runs = Append(@, LoopRun("update", st.src, st.Msg, st.MsgLen, r))],
        LAMBDA st1 :
    IF st.SwMsgLen = 0
    THEN IF r.MsgLen /= 0
         THEN [st1 EXCEPT !.Msg = r.Msg, !.MsgLen = r.MsgLen]
         ELSE [st1 EXCEPT !.ctx = [@ EXCEPT !.BufFill = 0], !.Msg = r.Msg,
                          !.MsgLen = r.MsgLen, !.returned = TRUE]
    ELSE Let([st1 EXCEPT !.src = "Msg0", !.Msg = st.SwMsg,
                         !.MsgLen = st.SwMsgLen, !.SwMsgLen = 0],
             LAMBDA st2 : UpdateLoopNoFlag(st2, Msg0, bc))))

\* The while( MsgLen > 127 ) loop of komihash_stream_update, on the loop's
\* variables st: the context, Msg (in "Buf" or in the caller's "Msg0", with its
\* offset), MsgLen, SwMsg, SwMsgLen, and whether the function has returned;
\* st.runs records the expansions of KOMIHASH_HASHLOOP64 in their order.
RECURSIVE UpdateLoop(_, _, _)
UpdateLoop(st, Msg0, bc) ==
    IF ~(st.MsgLen > 127) THEN st
    ELSE
    Let(KOMIHASH_HASHLOOP64(IF st.src = "Buf" THEN st.ctx.mem ELSE Msg0,
                            LoopVars(st.Msg, st.MsgLen, UpdateLanes(st.ctx)), bc),
        LAMBDA r :
    Let([st EXCEPT !.ctx = [@ EXCEPT !.IsHashing = IF @ /= 0 THEN @ ELSE 1,
                                     !.Seed = r.S],
                   !.runs = Append(@, LoopRun("update", st.src, st.Msg, st.MsgLen, r))],
        LAMBDA st1 :
    IF st.SwMsgLen = 0
    THEN IF r.MsgLen /= 0
         THEN [st1 EXCEPT !.Msg = r.Msg, !.MsgLen = r.MsgLen]
         ELSE [st1 EXCEPT !.ctx = [@ EXCEPT !.BufFill = 0], !.Msg = r.Msg,
                          !.MsgLen = r.MsgLen, !.returned = TRUE]
    ELSE Let([st1 EXCEPT !.src = "Msg0", !.Msg = st.SwMsg,
                         !.MsgLen = st.SwMsgLen, !.SwMsgLen = 0],
             LAMBDA st2 : UpdateLoop(st2, Msg0, bc))))

\* A mutant of UpdateStart: after the buffer was filled up, the bulk loop is
\* given the least buffer size, 128 bytes, whatever the size of the buffer.
UpdateStartLeastSize(ctx, Msg0, MsgLen, bc) ==
    LET CopyLen == bc.B - ctx.BufFill IN
    IF ctx.BufFill + MsgLen >= bc.B /\ ctx.BufFill /= 0
    THEN [ctx |-> [ctx EXCEPT !.mem = memcpy(@, BufPtr + ctx.BufFill, Msg0, 0, CopyLen)],
          BufFill |-> 0, src |-> "Buf", Msg |-> BufPtr, MsgLen |-> MinBufSize,
          SwMsg |-> CopyLen, SwMsgLen |-> MsgLen - CopyLen, returned |-> FALSE,
          CopyLen |-> CopyLen, runs |-> <<>>]
    ELSE [ctx |-> ctx,
          BufFill |-> ctx.BufFill, src |-> "Msg0", Msg |-> 0,
          MsgLen |-> MsgLen, SwMsg |-> 0, SwMsgLen |-> 0, returned |-> FALSE,
          CopyLen |-> 0, runs |-> <<>>]

\* A mutant of UpdateStart: the buffer is flushed only when the input goes
\* beyond its end, so an input that ends at its end leaves it full.
UpdateStartBeyond(ctx, Msg0, MsgLen, bc) ==
    LET CopyLen == bc.B - ctx.BufFill IN
    IF ctx.BufFill + MsgLen > bc.B /\ ctx.BufFill /= 0
    THEN [ctx |-> [ctx EXCEPT !.mem = memcpy(@, BufPtr + ctx.BufFill, Msg0, 0, CopyLen)],
          BufFill |-> 0, src |-> "Buf", Msg |-> BufPtr, MsgLen |-> bc.B,
          SwMsg |-> CopyLen, SwMsgLen |-> MsgLen - CopyLen, returned |-> FALSE,
          CopyLen |-> CopyLen, runs |-> <<>>]
    ELSE [ctx |-> ctx,
          BufFill |-> ctx.BufFill, src |-> "Msg0", Msg |-> 0,
          MsgLen |-> MsgLen, SwMsg |-> 0, SwMsgLen |-> 0, returned |-> FALSE,
          CopyLen |-> 0, runs |-> <<>>]

\* A mutant of UpdateStart: after the buffer was filled up, the whole input is
\* kept to be hashed after the buffer, the bytes copied into the buffer
\* included.
UpdateStartRehashes(ctx, Msg0, MsgLen, bc) ==
    LET CopyLen == bc.B - ctx.BufFill IN
    IF ctx.BufFill + MsgLen >= bc.B /\ ctx.BufFill /= 0
    THEN [ctx |-> [ctx EXCEPT !.mem = memcpy(@, BufPtr + ctx.BufFill, Msg0, 0, CopyLen)],
          BufFill |-> 0, src |-> "Buf", Msg |-> BufPtr, MsgLen |-> bc.B,
          SwMsg |-> 0, SwMsgLen |-> MsgLen, returned |-> FALSE,
          CopyLen |-> CopyLen, runs |-> <<>>]
    ELSE [ctx |-> ctx,
          BufFill |-> ctx.BufFill, src |-> "Msg0", Msg |-> 0,
          MsgLen |-> MsgLen, SwMsg |-> 0, SwMsgLen |-> 0, returned |-> FALSE,
          CopyLen |-> 0, runs |-> <<>>]

\* The variables of komihash_stream_update when it reaches its loop: after the
\* buffer was filled up from the input ("flush"), or with nothing done yet.
\* CopyLen is the number of bytes the memcpy took from the input, 0 when there
\* was no memcpy.
UpdateStart(ctx, Msg0, MsgLen, bc) ==
    LET CopyLen == bc.B - ctx.BufFill IN
    IF ctx.BufFill + MsgLen >= bc.B /\ ctx.BufFill /= 0
    THEN [ctx |-> [ctx EXCEPT !.mem = memcpy(@, BufPtr + ctx.BufFill, Msg0, 0, CopyLen)],
          BufFill |-> 0, src |-> "Buf", Msg |-> BufPtr, MsgLen |-> bc.B,
          SwMsg |-> CopyLen, SwMsgLen |-> MsgLen - CopyLen, returned |-> FALSE,
          CopyLen |-> CopyLen, runs |-> <<>>]
    ELSE [ctx |-> ctx,
          BufFill |-> ctx.BufFill, src |-> "Msg0", Msg |-> 0,
          MsgLen |-> MsgLen, SwMsg |-> 0, SwMsgLen |-> 0, returned |-> FALSE,
          CopyLen |-> 0, runs |-> <<>>]

\* The offsets of the bytes of the caller's input that komihash_stream_update
\* reads, given its variables st after the loop: what the memcpy took, the
\* blocks of the bulk loop's runs over the input, and what the byte-by-byte
\* copy at the end takes.
UpdateReads(st) ==
    (0..(st.CopyLen - 1))
    \cup UNION {{st.runs[i].blocks[k] + d : d \in 0..63, k \in 1..Len(st.runs[i].blocks)} :
                i \in {r \in 1..Len(st.runs) : st.runs[r].src = "Msg0"}}
    \cup (IF ~st.returned /\ st.src = "Msg0"
          THEN st.Msg..(st.Msg + st.MsgLen - 1) ELSE {})

\* The offsets in komihash_stream_t (pb[ 0 ] is 0, Buf[ 0 ] is BufPtr) of the
\* bytes komihash_stream_update writes, given the context ctx it was called
\* on and its variables st after the loop: what the memcpy filled, and what
\* the byte-by-byte copy at the end stores.
UpdateWrites(ctx, st) ==
    (IF st.CopyLen /= 0
     THEN (BufPtr + ctx.BufFill)..(BufPtr + ctx.BufFill + st.CopyLen - 1) ELSE {})
    \cup (IF ~st.returned
          THEN (BufPtr + st.BufFill)..(BufPtr + st.BufFill + st.MsgLen - 1) ELSE {})

\* A mutant of komihash_stream_update_run: when no byte is left to copy into
\* the buffer, BufFill is set to 0, as it is inside the loop.
komihash_stream_update_run_resets(ctx, Msg0, MsgLen, bc) ==
    Let(UpdateStart(ctx, Msg0, MsgLen, bc), LAMBDA st0 :
    Let(IF st0.BufFill = 0 THEN UpdateLoop(st0, Msg0, bc) ELSE st0, LAMBDA st :
        [runs |-> st.runs, CopyLen |-> st.CopyLen, reads |-> UpdateReads(st),
         writes |-> UpdateWrites(ctx, st),
         ctx |->
            IF st.returned THEN st.ctx
            ELSE IF st.MsgLen = 0 THEN [st.ctx EXCEPT !.BufFill = 0]
            ELSE [st.ctx EXCEPT
                     !.BufFill = st.BufFill + st.MsgLen,
                     !.mem = memcpy(@, BufPtr + st.BufFill,
                                    IF st.src = "Buf" THEN st.ctx.mem ELSE Msg0,
                                    st.Msg, st.MsgLen)]]))

\* The end of komihash_stream_update, from "ctx -> BufFill = BufFill + MsgLen"
\* on, given its variables st after the loop: the context when it returns.
UpdateEnd(st, Msg0) ==
    IF st.returned THEN st.ctx
    ELSE [st.ctx EXCEPT
             !.BufFill = st.BufFill + st.MsgLen,
             !.mem = memcpy(@, BufPtr + st.BufFill,
                            IF st.src = "Buf" THEN st.ctx.mem ELSE Msg0,
                            st.Msg, st.MsgLen)]

\* komihash_stream_update( ctx, Msg0, MsgLen ): the context after the call,
\* with the bulk-loop expansions that ran, the number of bytes the memcpy
\* copied, the offsets of the input bytes that were read and the offsets of
\* the context's bytes that were written.  Msg0 is the
\* caller's memory, the message starting at its first byte.
komihash_stream_update_run(ctx, Msg0, MsgLen, bc) ==
    Let(UpdateStart(ctx, Msg0, MsgLen, bc), LAMBDA st0 :
    Let(IF st0.BufFill = 0 THEN UpdateLoop(st0, Msg0, bc) ELSE st0, LAMBDA st :
        [runs |-> st.runs, CopyLen |-> st.CopyLen, reads |-> UpdateReads(st),
         writes |-> UpdateWrites(ctx, st),
         ctx |-> UpdateEnd(st, Msg0)]))

komihash_stream_update(ctx, Msg0, MsgLen, bc) ==
    komihash_stream_update_run(ctx, Msg0, MsgLen, bc).ctx

\* A mutant of FinalLoop: the bulk loop is expanded without the test
\* "if( MsgLen > 63 )" around it.
FinalLoopAlways(ctx, mem, bc) ==
    Let(KOMIHASH_HASHLOOP64(mem, LoopVars(BufPtr, ctx.BufFill, ctx.Seed), bc),
        LAMBDA r :
            [Msg |-> r.Msg, MsgLen |-> r.MsgLen, S |-> r.S,
             runs |-> <<LoopRun("final", "Buf", BufPtr, ctx.BufFill, r)>>])

\* The variables Msg, MsgLen and the lanes of komihash_stream_final when it
\* reaches komihash_epi, over the memory mem of the context, and the
\* bulk-loop expansion that ran, if one did.
FinalLoop(ctx, mem, bc) ==
    IF ctx.BufFill > 63
    THEN Let(KOMIHASH_HASHLOOP64(mem, LoopVars(BufPtr, ctx.BufFill, ctx.Seed), bc),
             LAMBDA r :
                 [Msg |-> r.Msg, MsgLen |-> r.MsgLen, S |-> r.S,
                  runs |-> <<LoopRun("final", "Buf", BufPtr, ctx.BufFill, r)>>])
    ELSE [Msg |-> BufPtr, MsgLen |-> ctx.BufFill, S |-> ctx.Seed, runs |-> <<>>]

\* The result of komihash_stream_final for a context on which no bulk loop
\* has run: komihash of the buffered bytes.
FinalNotHashing(ctx, bc) ==
    Let(komihash_run(ctx.mem, BufPtr, ctx.BufFill, ctx.Seed[1], bc), LAMBDA k :
        [ret |-> k.ret, ctx |-> ctx, runs |-> k.runs])

\* A mutant of komihash_stream_final: the lanes are stored back into the
\* context after the bulk loop, as komihash_stream_update does.
komihash_stream_final_stores(ctx, bc) ==
    IF ctx.IsHashing = 0
    THEN FinalNotHashing(ctx, bc)
    ELSE
    Let([ctx.mem EXCEPT ![5] = 0, ![6] = 0, ![7] = 0, ![8] = 0], LAMBDA mem2 :
    Let(FinalLoop(ctx, mem2, bc), LAMBDA r :
    Let(FoldLanes(r.S), LAMBDA f :
        [ret |-> komihash_epi(mem2, r.Msg, r.MsgLen, f[1], f[2], bc),
         ctx |-> [ctx EXCEPT !.mem = mem2, !.Seed = r.S], runs |-> r.runs])))

\* A mutant of komihash_stream_final: all eight padding bytes are cleared.
komihash_stream_final_clears_pb(ctx, bc) ==
    IF ctx.IsHashing = 0
    THEN FinalNotHashing(ctx, bc)
    ELSE
    Let([i \in 1..Len(ctx.mem) |-> IF i <= PbSize THEN 0 ELSE ctx.mem[i]], LAMBDA mem2 :
    Let(FinalLoop(ctx, mem2, bc), LAMBDA r :
    Let(FoldLanes(r.S), LAMBDA f :
        [ret |-> komihash_epi(mem2, r.Msg, r.MsgLen, f[1], f[2], bc),
         ctx |-> [ctx EXCEPT !.mem = mem2], runs |-> r.runs])))

\* komihash_stream_final( ctx ): the value returned, the context after the
\* call, and the bulk-loop expansions that ran.
komihash_stream_final(ctx, bc) ==
    IF ctx.IsHashing = 0
    THEN FinalNotHashing(ctx, bc)
    ELSE
    Let([ctx.mem EXCEPT ![5] = 0, ![6] = 0, ![7] = 0, ![8] = 0], LAMBDA mem2 :
    Let(FinalLoop(ctx, mem2, bc), LAMBDA r :
    Let(FoldLanes(r.S), LAMBDA f :
        [ret |-> komihash_epi(mem2, r.Msg, r.MsgLen, f[1], f[2], bc),
         ctx |-> [ctx EXCEPT !.mem = mem2], runs |-> r.runs])))

komihash_stream_oneshot(garbage, Msg, MsgLen, UseSeed, bc) ==
    Let(komihash_stream_update(komihash_stream_init(garbage, UseSeed), Msg, MsgLen, bc),
        LAMBDA ctx : komihash_stream_final(ctx, bc).ret)

\* ------------------------------------------------------- what is read

\* The offsets (from the start of the memory) of the bytes the loaders and
\* the hash read, following the same branches as the functions themselves.
kh_lu32ec_reads(p) == p..(p + 3)

kh_lu64ec_reads(p) == p..(p + 7)

kh_lpu64ec_l3_reads(Msg, MsgLen) ==
    IF MsgLen < 4
    THEN (Msg + MsgLen - 3)..(Msg + MsgLen - 1)
    ELSE kh_lu32ec_reads(Msg + MsgLen - 4) \cup kh_lu32ec_reads(Msg)

\* A mutant of kh_lpu64ec_nz_reads: a message shorter than four bytes is
\* loaded as one 32-bit word at Msg.
kh_lpu64ec_nz_reads_word(Msg, MsgLen) ==
    IF MsgLen < 4
    THEN kh_lu32ec_reads(Msg)
    ELSE kh_lu32ec_reads(Msg + MsgLen - 4) \cup kh_lu32ec_reads(Msg)

kh_lpu64ec_nz_reads(Msg, MsgLen) ==
    IF MsgLen < 4
    THEN {Msg} \cup (IF MsgLen > 1
                     THEN {Msg + 1} \cup (IF MsgLen > 2 THEN {Msg + 2} ELSE {})
                     ELSE {})
    ELSE kh_lu32ec_reads(Msg + MsgLen - 4) \cup kh_lu32ec_reads(Msg)

kh_lpu64ec_l4_reads(Msg, MsgLen) ==
    IF MsgLen < 5
    THEN kh_lu32ec_reads(Msg + MsgLen - 4)
    ELSE kh_lu64ec_reads(Msg + MsgLen - 8)

KOMIHASH_HASH16_reads(m) == kh_lu64ec_reads(m) \cup kh_lu64ec_reads(m + 8)

RECURSIVE KOMIHASH_HASHLOOP64_reads(_, _)
KOMIHASH_HASHLOOP64_reads(Msg, MsgLen) ==
    (Msg..(Msg + 63))
    \cup (IF MsgLen - 64 > 63 THEN KOMIHASH_HASHLOOP64_reads(Msg + 64, MsgLen - 64)
          ELSE {})

komihash_epi_reads(Msg, MsgLen) ==
    LET MsgA == IF MsgLen > 31 THEN Msg + 32 ELSE Msg
        LenA == IF MsgLen > 31 THEN MsgLen - 32 ELSE MsgLen
        MsgB == IF LenA > 15 THEN MsgA + 16 ELSE MsgA
        LenB == IF LenA > 15 THEN LenA - 16 ELSE LenA
    IN  (IF MsgLen > 31
         THEN KOMIHASH_HASH16_reads(Msg) \cup KOMIHASH_HASH16_reads(Msg + 16) ELSE {})
        \cup (IF LenA > 15 THEN KOMIHASH_HASH16_reads(MsgA) ELSE {})
        \cup (IF LenB > 7
              THEN kh_lu64ec_reads(MsgB) \cup kh_lpu64ec_l4_reads(MsgB + 8, LenB - 8)
              ELSE kh_lpu64ec_l4_reads(MsgB, LenB))

komihash_reads(Msg, MsgLen) ==
    IF MsgLen < 16
    THEN IF MsgLen > 7
         THEN kh_lu64ec_reads(Msg) \cup kh_lpu64ec_l3_reads(Msg + 8, MsgLen - 8)
         ELSE IF MsgLen /= 0 THEN kh_lpu64ec_nz_reads(Msg, MsgLen)
         ELSE {}
    ELSE IF MsgLen < 32
    THEN KOMIHASH_HASH16_reads(Msg)
         \cup (IF MsgLen > 23
               THEN kh_lu64ec_reads(Msg + 16)
                    \cup kh_lpu64ec_l4_reads(Msg + 24, MsgLen - 24)
               ELSE kh_lpu64ec_l4_reads(Msg + 16, MsgLen - 16))
    ELSE IF MsgLen > 63
    THEN KOMIHASH_HASHLOOP64_reads(Msg, MsgLen)
         \cup komihash_epi_reads(Msg + 64 * (MsgLen \div 64), MsgLen % 64)
    ELSE komihash_epi_reads(Msg, MsgLen)

\* A mutant of komihash_stream_final_reads: the tail loader's read of the
\* bytes before a short tail is an 8-byte one.
komihash_stream_final_reads_word(ctx) ==
    IF ctx.IsHashing = 0
    THEN komihash_reads(BufPtr, ctx.BufFill)
    ELSE IF ctx.BufFill > 63
    THEN KOMIHASH_HASHLOOP64_reads(BufPtr, ctx.BufFill)
         \cup komihash_epi_reads(BufPtr + 64 * (ctx.BufFill \div 64), ctx.BufFill % 64)
    ELSE komihash_epi_reads(BufPtr, ctx.BufFill)
         \cup kh_lu64ec_reads(BufPtr + ctx.BufFill - 8)

\* The offsets in komihash_stream_t of the bytes komihash_stream_final reads
\* through Msg: those of komihash over the buffer when no hashing has started,
\* else those of the bulk loop, when it runs, and of komihash_epi over what
\* the loop leaves.
komihash_stream_final_reads(ctx) ==
    IF ctx.IsHashing = 0
    THEN komihash_reads(BufPtr, ctx.BufFill)
    ELSE IF ctx.BufFill > 63
    THEN KOMIHASH_HASHLOOP64_reads(BufPtr, ctx.BufFill)
         \cup komihash_epi_reads(BufPtr + 64 * (ctx.BufFill \div 64), ctx.BufFill % 64)
    ELSE komihash_epi_reads(BufPtr, ctx.BufFill)

\* ------------------------------------------------- the calls of the loaders

\* The shift counts a padded loader uses for a tail of MsgLen bytes, in the
\* branch it takes.
kh_lpu64ec_l3_shifts(MsgLen) ==
    LET ml8 == MsgLen * 8 IN
    IF MsgLen < 4 THEN {8, 16, ml8, 24 - ml8} ELSE {ml8, 64 - ml8, 32}

kh_lpu64ec_nz_shifts(MsgLen) ==
    LET ml8 == MsgLen * 8 IN
    IF MsgLen < 4
    THEN {ml8} \cup (IF MsgLen > 1
                     THEN {8} \cup (IF MsgLen > 2 THEN {16} ELSE {})
                     ELSE {})
    ELSE {ml8, 64 - ml8, 32}

kh_lpu64ec_l4_shifts(MsgLen) ==
    LET ml8 == MsgLen * 8 IN
    IF MsgLen < 5 THEN {ml8, 32 - ml8} ELSE {ml8, 64 - ml8}

\* One call of a padded loader: fn names the loader.
TailCall(fn, MsgLen) ==
    [fn |-> fn, MsgLen |-> MsgLen,
     shifts |-> IF fn = "kh_lpu64ec_l3" THEN kh_lpu64ec_l3_shifts(MsgLen)
                ELSE IF fn = "kh_lpu64ec_nz" THEN kh_lpu64ec_nz_shifts(MsgLen)
                ELSE kh_lpu64ec_l4_shifts(MsgLen)]

\* A mutant of komihash_epi_calls: the "if( MsgLen > 15 )" block is left out.
komihash_epi_calls_skips16(MsgLen) ==
    LET LenA == IF MsgLen > 31 THEN MsgLen - 32 ELSE MsgLen
    IN  [epi |-> {MsgLen},
         tail |-> {IF LenA > 7 THEN TailCall("kh_lpu64ec_l4", LenA - 8)
                   ELSE TailCall("kh_lpu64ec_l4", LenA)}]

\* The calls komihash_epi( Msg, MsgLen, .. ) makes, following its branches:
\* epi is the MsgLen it was entered with, tail the calls of the padded loaders.
komihash_epi_calls(MsgLen) ==
    LET LenA == IF MsgLen > 31 THEN MsgLen - 32 ELSE MsgLen
        LenB == IF LenA > 15 THEN LenA - 16 ELSE LenA
    IN  [epi |-> {MsgLen},
         tail |-> {IF LenB > 7 THEN TailCall("kh_lpu64ec_l4", LenB - 8)
                   ELSE TailCall("kh_lpu64ec_l4", LenB)}]

\* The calls komihash( Msg, MsgLen, .. ) makes.
komihash_calls(MsgLen) ==
    IF MsgLen < 16
    THEN [epi |-> {},
          tail |-> IF MsgLen > 7 THEN {TailCall("kh_lpu64ec_l3", MsgLen - 8)}
                   ELSE IF MsgLen /= 0 THEN {TailCall("kh_lpu64ec_nz", MsgLen)}
                   ELSE {}]
    ELSE IF MsgLen < 32
    THEN [epi |-> {},
          tail |-> IF MsgLen > 23 THEN {TailCall("kh_lpu64ec_l4", MsgLen - 24)}
                   ELSE {TailCall("kh_lpu64ec_l4", MsgLen - 16)}]
    ELSE IF MsgLen > 63
    THEN komihash_epi_calls(MsgLen % 64)
    ELSE komihash_epi_calls(MsgLen)

\* The calls komihash_stream_final( ctx ) makes.
komihash_stream_final_calls(ctx) ==
    IF ctx.IsHashing = 0
    THEN komihash_calls(ctx.BufFill)
    ELSE IF ctx.BufFill > 63
    THEN komihash_epi_calls(ctx.BufFill % 64)
    ELSE komihash_epi_calls(ctx.BufFill)

\* No call of komihash_epi or of a padded loader.
NoCalls == [epi |-> {}, tail |-> {}]

\* ------------------------------------------------------------ the bounds

\* The calls of komihash_stream_init and of komihash_stream_update in one
\* behaviour, and the bytes of one streamed message.
MaxInits == 2

MaxUpdates == 2

MaxTotal == 1100

\* The one-shot calls in one behaviour, and the length up to which every
\* message length is hashed.
MaxCalls == 2

MaxOneLen == 33

\* The calls of komihash_stream_update by one thread.
MaxThreadUpdates == 2

\* ------------------------------------------------------ the environment

\* The buffer sizes the header is built with, side by side: the least one and
\* the default.
BufSizes == {MinBufSize, KOMIHASH_BUFSIZE}

\* The seeds the callers pass: 0 and 0x0123456789ABCDEF.
Seeds == {Zero64, W(1, 35, 69, 103, 137, 171, 205, 239)}

\* What an uninitialised komihash_stream_t may hold: every byte this value.
GarbageBytes == {165}

\* The bytes the caller hashes: byte i (from 0) of the message.
Data(i) == (i * 167 + (i \div 64) * 13 + 1) % 256

\* The n bytes of the message from position from, as the caller's memory.
Chunk(from, n) == [i \in 1..n |-> Data(from + i - 1)]

Garbage(B, g) ==
    [mem |-> [i \in 1..(PbSize + B) |-> g],
     Seed |-> [k \in 1..8 |-> [i \in 1..8 |-> g]],
     BufFill |-> g, IsHashing |-> g]

\* Where a one-shot caller keeps its message: pre bytes before it and post
\* bytes after it, all of value g, belong to something else.
Places == {[pre |-> 4, post |-> 8, g |-> 165], [pre |-> 9, post |-> 12, g |-> 90]}

\* The caller's memory with the first n bytes of the message at the place.
Embed(place, n) ==
    [i \in 1..(place.pre + n + place.post) |->
        IF i > place.pre /\ i <= place.pre + n THEN Data(i - place.pre - 1)
        ELSE place.g]

\* The message lengths of the one-shot calls: every short one, and the ones
\* around one and two blocks of the bulk loop.
OneLens == (0..MaxOneLen) \cup {63, 64, 65, 128}

\* The message lengths passed to komihash_stream_oneshot: two blocks of the
\* bulk loop and a rest that takes every branch of komihash_epi.
OneshotLens == {128 + r : r \in {0, 4, 5, 7, 8, 15, 16, 24, 31, 32, 40, 48, 63}}

\* A null pointer: no byte of memory is behind it.
NullMem == <<>>

\* The tails the padded loaders are called on: every length below 8 ("less
\* than 8 bytes are left to read"); every content of bytes 0 and 1, and
\* contents of high and of all different bytes.
TailLens == 0..7

Tails ==
    UNION {[1..n -> {0, 1}]
           \cup {[i \in 1..n |-> 255], [i \in 1..n |-> 17 * i], [i \in 1..n |-> 256 - 17 * i]} :
           n \in TailLens}

\* The four bytes in memory before a tail, which the loaders' reads at
\* Msg[ -3 ] and Msg[ -4 ] touch.
TailPres == {<<0, 0, 0, 0>>, <<255, 255, 255, 255>>, <<1, 1, 1, 1>>}

\* The memory around a tail, and the tail's place in it.
TailMem(pre, tail) == pre \o tail

TailPtr == 4

\* The 64-bit values kh_m128, the round macros and komirand are called with:
\* 0, 1, 2^64 - 1, 2^32 - 1, 0x8000000080000001, 0x0123456789ABCDEF and
\* 0xAAAAAAAAAAAAAAAA.
Words ==
    {Zero64, One64, W(255, 255, 255, 255, 255, 255, 255, 255),
     W(0, 0, 0, 0, 255, 255, 255, 255), W(128, 0, 0, 0, 128, 0, 0, 1),
     W(1, 35, 69, 103, 137, 171, 205, 239), MASKA}

\* The second 64-bit word of the 16 bytes KOMIHASH_HASH16 loads.
Words2 == {Zero64, W(255, 255, 255, 255, 255, 255, 255, 255),
           W(1, 35, 69, 103, 137, 171, 205, 239)}

\* The 16 bytes at m that hold the words m0 and m1 in little-endian order.
WordsMem(m0, m1) == m0 \o m1

\* ------------------------------------------------------------- testvec.c

seedc == 3

strc == 5

bulkc == 17

bulkbc == 256

\* The number of komirand() outputs main() prints for each seed.
randc == 12

seeds == <<Zero64, W(1, 35, 69, 103, 137, 171, 205, 239), W(0, 0, 0, 0, 0, 0, 1, 0)>>

\* The characters of strs[ 0 .. 4 ] (strlen() of each is the tuple's length).
strs == <<
    \* "This is a 32-byte testing string"
    <<
      84, 104, 105, 115, 32, 105, 115, 32, 97, 32, 51, 50,
      45, 98, 121, 116, 101, 32, 116, 101, 115, 116, 105, 110,
      103, 32, 115, 116, 114, 105, 110, 103
    >>,
    \* "The cat is out of the bag"
    <<
      84, 104, 101, 32, 99, 97, 116, 32, 105, 115, 32, 111,
      117, 116, 32, 111, 102, 32, 116, 104, 101, 32, 98, 97,
      103
    >>,
    \* "A 16-byte string"
    <<
      65, 32, 49, 54, 45, 98, 121, 116, 101, 32, 115, 116,
      114, 105, 110, 103
    >>,
    \* "The new string"
    <<
      84, 104, 101, 32, 110, 101, 119, 32, 115, 116, 114, 105,
      110, 103
    >>,
    \* "7 chars"
    <<
      55, 32, 99, 104, 97, 114, 115
    >>
>>

bulks == <<3, 6, 8, 12, 20, 31, 32, 40, 47, 48, 56, 64, 72, 80, 112, 132, 256>>

\* ----------------------------------------------------------- the state

VARIABLES
    le,        \* KOMIHASH_LITTLE_ENDIAN of the host
    ctxs,      \* the komihash_stream_t of each build, by its KOMIHASH_BUFSIZE
    UseSeed,   \* the seed of the last komihash_stream_init
    total,     \* the bytes passed to komihash_stream_update since then
    op,        \* the last call: "none", "init", "update" or "final"
    ret,       \* what the last call of komihash_stream_final returned, by build
    trace,     \* what the last streaming call did, by build: the bulk-loop
               \* expansions, the bytes the memcpy copied, the input bytes read
               \* (after a final: the context's bytes read), the context's
               \* bytes written
    bulk,      \* the runs of the bulk loop's body in komihash_stream_update
               \* since the last komihash_stream_init, by build
    resumed,   \* since the last init, an update has followed a final
    inits,     \* the calls of komihash_stream_init so far
    updates,   \* the calls of komihash_stream_update so far
    one,       \* the last one-shot call of komihash: arguments, result, reads,
               \* the calls of komihash_epi and of the padded loaders it made
    vec,       \* the variables of main() of testvec.c, and what it last printed
    thr,       \* two threads that hash at the same time: the context of
               \* each, and where each is in its calls, with the call's variables
    twin,      \* two komihash_stream_t that held different bytes before
               \* komihash_stream_init, and are passed the same calls
    call       \* the last call of a loader, kh_m128, a round macro or
               \* komirand: its arguments and what it gave

vars == <<le, ctxs, UseSeed, total, op, ret, trace, bulk, resumed, inits, updates, one, vec,
          thr, twin, call>>

Build(B) == [le |-> le, B |-> B]

\* A call that ran no bulk loop, copied nothing and read nothing.
NoTrace == [runs |-> <<>>, CopyLen |-> 0, reads |-> {}, writes |-> {}]

\* The runs of the bulk loop's body in a sequence of expansions.
RECURSIVE Iterations(_)
Iterations(runs) ==
    IF runs = <<>> THEN 0 ELSE Len(Head(runs).blocks) + Iterations(Tail(runs))

\* No streaming session, no one-shot call, testvec.c not running.
StreamIdle ==
    /\ \E g \in GarbageBytes : ctxs = [B \in BufSizes |-> Garbage(B, g)]
    /\ UseSeed = Zero64
    /\ total = 0
    /\ op = "none"
    /\ ret = [B \in BufSizes |-> Zero64]
    /\ trace = [B \in BufSizes |-> NoTrace]
    /\ bulk = [B \in BufSizes |-> 0]
    /\ resumed = FALSE
    /\ inits = 0
    /\ updates = 0

OneIdle ==
    one = [fn |-> "none", null |-> FALSE, pre |-> 0, Msg |-> 0, MsgLen |-> 0,
           UseSeed |-> Zero64, ret |-> Zero64, reads |-> {}, made |-> NoCalls,
           same |-> FALSE, calls |-> 0]

VecIdle ==
    vec = [pc |-> "none", i |-> 0, j |-> 0, bulkbuf |-> <<>>, Seed1 |-> Zero64,
           Seed2 |-> Zero64, printed |-> [kind |-> "none", j |-> 0, i |-> 0],
           out |-> Zero64]

\* The threads, each with a komihash_stream_t of its own, of the least size.
Threads == {1, 2}

ThreadBuild == Build(MinBufSize)

\* A mutant of ThreadCtx: both threads pass the context of thread 1.
ThreadCtxShared(t) == 1

\* The context a thread passes to its calls: its own.
ThreadCtx(t) == t

\* The seed of a thread, and where its message starts in the caller's data.
ThreadSeed(t) == IF t = 1 THEN Zero64 ELSE W(1, 35, 69, 103, 137, 171, 205, 239)

ThreadBase(t) == (t - 1) * 300

\* The bytes from position from on that a thread passes to an update.
ThreadChunk(t, from, n) == Chunk(ThreadBase(t) + from, n)

\* The lengths a thread passes to komihash_stream_update.
ThreadLens == {MinBufSize - 1, MinBufSize + 2}

\* A thread outside komihash_stream_update: no variables of the call.
NoCall == [returned |-> TRUE]

ThreadsIdle ==
    thr = [ctx |-> [c \in Threads |-> Garbage(MinBufSize, 165)],
           loc |-> [t \in Threads |->
                       [pc |-> "none", n |-> 0, total |-> 0, updates |-> 0,
                        st |-> NoCall, ret |-> Zero64]]]

\* The build the twin contexts belong to.
TwinBuild == Build(MinBufSize)

\* A context a session has been run on and abandoned: 131 bytes were hashed
\* with the second seed and the hash was taken, so hashing has started, three
\* bytes are buffered, the lanes are in Seed and pb[ 4 .. 7 ] has been cleared.
TwinUsed ==
    komihash_stream_final(
        komihash_stream_update(
            komihash_stream_init(Garbage(MinBufSize, 90),
                                 W(1, 35, 69, 103, 137, 171, 205, 239)),
            Chunk(300, MinBufSize + 3), MinBufSize + 3, TwinBuild),
        TwinBuild).ctx

\* What the two contexts hold before komihash_stream_init: uninitialised
\* memory of different content, or uninitialised memory and a used context.
TwinPairs ==
    {<<Garbage(MinBufSize, 165), Garbage(MinBufSize, 90)>>,
     <<Garbage(MinBufSize, 165), TwinUsed>>}

\* The lengths passed to komihash_stream_update on the twin contexts.
TwinLens == {0, 1, MinBufSize - 1, MinBufSize, MinBufSize + 3}

\* The twin contexts when nothing has been called on them.
TwinNew(pair) ==
    [ctx |-> pair, UseSeed |-> Zero64, total |-> 0, op |-> "none",
     ret |-> <<Zero64, Zero64>>, inits |-> 0, updates |-> 0]

TwinIdle == twin = TwinNew(<<Garbage(MinBufSize, 165), Garbage(MinBufSize, 165)>>)

\* No call of a loader, kh_m128, a round macro or komirand yet.
CallIdle == call = [fn |-> "none", arg |-> <<>>, out |-> <<>>]

\* ------------------------------------------------- the streaming session

\* The message hashed so far, as one block of memory.
msg == Chunk(0, total)

\* The lengths offered to komihash_stream_update: short ones, one block of
\* the bulk loop, and two blocks with and without a byte more; and the ones
\* that fill a non-empty buffer exactly, overfill it by one byte, and overfill
\* it by two 64-byte blocks and one byte.
UpdateLens ==
    {0, 1, 64, 128, 129}
    \cup UNION {{B - ctxs[B].BufFill + d : d \in {0, 1, 129}} :
                B \in {b \in BufSizes : ctxs[b].BufFill /= 0}}

Init ==
    /\ le \in BOOLEAN
    /\ StreamIdle
    /\ OneIdle
    /\ VecIdle
    /\ ThreadsIdle
    /\ TwinIdle
    /\ CallIdle

\* komihash_stream_init on a context in any state; a session is started only
\* while an update can still follow it.
StreamInit(seed) ==
    /\ inits < MaxInits
    /\ updates < MaxUpdates
    /\ ctxs' = [B \in BufSizes |-> komihash_stream_init(ctxs[B], seed)]
    /\ UseSeed' = seed
    /\ total' = 0
    /\ op' = "init"
    /\ ret' = [B \in BufSizes |-> Zero64]
    /\ trace' = [B \in BufSizes |-> NoTrace]
    /\ bulk' = [B \in BufSizes |-> 0]
    /\ resumed' = FALSE
    /\ inits' = inits + 1
    /\ UNCHANGED <<le, twin, call, updates, one, vec, thr>>

StreamUpdate(n) ==
    /\ op /= "none"
    /\ updates < MaxUpdates
    /\ total + n <= MaxTotal
    /\ \E u \in {[B \in BufSizes |->
                   komihash_stream_update_run(ctxs[B], Chunk(total, n), n, Build(B))]} :
           /\ ctxs' = [B \in BufSizes |-> u[B].ctx]
           /\ trace' = [B \in BufSizes |->
                           [runs |-> u[B].runs, CopyLen |-> u[B].CopyLen,
                            reads |-> u[B].reads, writes |-> u[B].writes]]
           /\ bulk' = [B \in BufSizes |-> bulk[B] + Iterations(u[B].runs)]
    /\ total' = total + n
    /\ op' = "update"
    /\ ret' = [B \in BufSizes |-> Zero64]
    /\ resumed' = (resumed \/ op = "final")
    /\ updates' = updates + 1
    /\ UNCHANGED <<le, twin, call, UseSeed, inits, one, vec, thr>>

StreamFinal ==
    /\ op /= "none"
    /\ \E f \in {[B \in BufSizes |-> komihash_stream_final(ctxs[B], Build(B))]} :
           /\ ctxs' = [B \in BufSizes |-> f[B].ctx]
           /\ ret' = [B \in BufSizes |-> f[B].ret]
           /\ trace' = [B \in BufSizes |->
                           [NoTrace EXCEPT !.runs = f[B].runs,
                                           !.reads = komihash_stream_final_reads(ctxs[B])]]
    /\ op' = "final"
    /\ UNCHANGED <<le, twin, call, UseSeed, total, bulk, resumed, inits, updates, one, vec, thr>>

Next ==
    \/ \E seed \in Seeds : StreamInit(seed)
    \/ \E n \in UpdateLens : StreamUpdate(n)
    \/ StreamFinal

Spec == Init /\ [][Next]_vars

\* ----------------------------------------------------- one-shot callers

\* komihash( Msg, n, seed ) on the message kept at the place.
Komihash(place, n, seed) ==
    /\ one.calls < MaxCalls
    /\ one' = [fn |-> "komihash", null |-> FALSE, pre |-> place.pre,
               Msg |-> place.pre, MsgLen |-> n, UseSeed |-> seed,
               ret |-> komihash(Embed(place, n), place.pre, n, seed,
                                Build(KOMIHASH_BUFSIZE)),
               reads |-> komihash_reads(place.pre, n),
               made |-> komihash_calls(n),
               same |-> /\ one.fn = "komihash"
                        /\ one.MsgLen = n
                        /\ one.UseSeed = seed
                        /\ one.pre /= place.pre,
               calls |-> one.calls + 1]
    /\ UNCHANGED <<le, twin, call, ctxs, UseSeed, total, op, ret, trace, bulk, resumed, inits, updates, vec, thr>>

\* komihash( 0, 0, seed ): a null pointer and no bytes.
KomihashNull(seed) ==
    /\ one.calls < MaxCalls
    /\ one' = [fn |-> "komihash", null |-> TRUE, pre |-> 0,
               Msg |-> 0, MsgLen |-> 0, UseSeed |-> seed,
               ret |-> komihash(NullMem, 0, 0, seed, Build(KOMIHASH_BUFSIZE)),
               reads |-> komihash_reads(0, 0),
               made |-> komihash_calls(0),
               same |-> /\ one.fn = "komihash"
                        /\ one.MsgLen = 0
                        /\ one.UseSeed = seed
                        /\ ~one.null,
               calls |-> one.calls + 1]
    /\ UNCHANGED <<le, twin, call, ctxs, UseSeed, total, op, ret, trace, bulk, resumed, inits, updates, vec, thr>>

\* komihash_stream_oneshot( Msg, n, seed ): init, update and final on a
\* context of its own, in the build with the least buffer.
KomihashStreamOneshot(n, seed) ==
    /\ one.calls < MaxCalls
    /\ \E ctx \in {komihash_stream_update(
                       komihash_stream_init(Garbage(MinBufSize, 165), seed),
                       Chunk(0, n), n, Build(MinBufSize))} :
           one' = [fn |-> "komihash_stream_oneshot", null |-> FALSE, pre |-> 0,
                   Msg |-> 0, MsgLen |-> n, UseSeed |-> seed,
                   ret |-> komihash_stream_final(ctx, Build(MinBufSize)).ret,
                   reads |-> 0..(n - 1),
                   made |-> komihash_stream_final_calls(ctx),
                   same |-> FALSE,
                   calls |-> one.calls + 1]
    /\ UNCHANGED <<le, twin, call, ctxs, UseSeed, total, op, ret, trace, bulk, resumed, inits, updates, vec, thr>>

NextOne ==
    \/ \E place \in Places, n \in OneLens, seed \in Seeds : Komihash(place, n, seed)
    \/ \E seed \in Seeds : KomihashNull(seed)
    \/ \E n \in OneshotLens, seed \in Seeds : KomihashStreamOneshot(n, seed)

SpecOne == Init /\ [][NextOne]_vars

\* ---------------------------------------------------------- the threads

\* Thread t calls komihash_stream_init on its context.
ThreadInit(t) ==
    /\ thr.loc[t].pc = "none"
    /\ thr' = [thr EXCEPT
                  !.ctx[ThreadCtx(t)] = komihash_stream_init(@, ThreadSeed(t)),
                  !.loc[t].pc = "ready"]
    /\ UNCHANGED <<le, twin, call, ctxs, UseSeed, total, op, ret, trace, bulk, resumed, inits,
                   updates, one, vec>>

\* Thread t enters komihash_stream_update with the next n bytes of its
\* message and runs it up to the loop: the buffer is filled up if the input
\* reaches its end.
ThreadUpdateStart(t, n) ==
    /\ thr.loc[t].pc = "ready"
    /\ thr.loc[t].updates < MaxThreadUpdates
    /\ \E st \in {UpdateStart(thr.ctx[ThreadCtx(t)],
                               ThreadChunk(t, thr.loc[t].total, n), n, ThreadBuild)} :
           thr' = [thr EXCEPT
                      !.ctx[ThreadCtx(t)] = st.ctx,
                      !.loc[t].pc = "loop",
                      !.loc[t].n = n,
                      !.loc[t].updates = @ + 1,
                      !.loc[t].st = st]
    /\ UNCHANGED <<le, twin, call, ctxs, UseSeed, total, op, ret, trace, bulk, resumed, inits,
                   updates, one, vec>>

\* Thread t runs the loop of komihash_stream_update on the context as it is
\* now.
ThreadUpdateLoop(t) ==
    /\ thr.loc[t].pc = "loop"
    /\ \E st \in {Let([thr.loc[t].st EXCEPT !.ctx = thr.ctx[ThreadCtx(t)]],
                       LAMBDA st0 :
                           IF st0.BufFill = 0
                           THEN UpdateLoop(st0, ThreadChunk(t, thr.loc[t].total,
                                                            thr.loc[t].n), ThreadBuild)
                           ELSE st0)} :
           thr' = [thr EXCEPT
                      !.ctx[ThreadCtx(t)] = st.ctx,
                      !.loc[t].pc = "copy",
                      !.loc[t].st = st]
    /\ UNCHANGED <<le, twin, call, ctxs, UseSeed, total, op, ret, trace, bulk, resumed, inits,
                   updates, one, vec>>

\* Thread t runs komihash_stream_update to its end and returns.
ThreadUpdateEnd(t) ==
    /\ thr.loc[t].pc = "copy"
    /\ thr' = [thr EXCEPT
                  !.ctx[ThreadCtx(t)] =
                      UpdateEnd([thr.loc[t].st EXCEPT !.ctx = thr.ctx[ThreadCtx(t)]],
                                ThreadChunk(t, thr.loc[t].total, thr.loc[t].n)),
                  !.loc[t].pc = "ready",
                  !.loc[t].total = @ + thr.loc[t].n,
                  !.loc[t].n = 0,
                  !.loc[t].st = NoCall]
    /\ UNCHANGED <<le, twin, call, ctxs, UseSeed, total, op, ret, trace, bulk, resumed, inits,
                   updates, one, vec>>

\* Thread t calls komihash_stream_final and is done.
ThreadFinal(t) ==
    /\ thr.loc[t].pc = "ready"
    /\ \E f \in {komihash_stream_final(thr.ctx[ThreadCtx(t)], ThreadBuild)} :
           thr' = [thr EXCEPT
                      !.ctx[ThreadCtx(t)] = f.ctx,
                      !.loc[t].pc = "done",
                      !.loc[t].ret = f.ret]
    /\ UNCHANGED <<le, twin, call, ctxs, UseSeed, total, op, ret, trace, bulk, resumed, inits,
                   updates, one, vec>>

NextThreads ==
    \E t \in Threads :
        \/ ThreadInit(t)
        \/ \E n \in ThreadLens : ThreadUpdateStart(t, n)
        \/ ThreadUpdateLoop(t)
        \/ ThreadUpdateEnd(t)
        \/ ThreadFinal(t)

SpecThreads == Init /\ [][NextThreads]_vars

\* ------------------------------------------------------ main() of testvec.c

\* ------------------------------------------------------ the twin contexts

\* Two contexts with different contents, before komihash_stream_init.
InitTwin ==
    /\ le \in BOOLEAN
    /\ StreamIdle
    /\ OneIdle
    /\ VecIdle
    /\ ThreadsIdle
    /\ CallIdle
    /\ \E pair \in TwinPairs : twin = TwinNew(pair)

\* komihash_stream_init with the same seed on both contexts.
TwinInit(seed) ==
    /\ twin.inits < MaxInits
    /\ twin.updates < MaxUpdates
    /\ twin' = [twin EXCEPT
                   !.ctx = <<komihash_stream_init(twin.ctx[1], seed),
                             komihash_stream_init(twin.ctx[2], seed)>>,
                   !.UseSeed = seed, !.total = 0, !.op = "init",
                   !.ret = <<Zero64, Zero64>>, !.inits = @ + 1]
    /\ UNCHANGED <<le, ctxs, UseSeed, total, op, ret, trace, bulk, resumed, inits,
                   updates, one, vec, thr, call>>

\* komihash_stream_update with the same n bytes on both contexts.
TwinUpdate(n) ==
    /\ twin.op /= "none"
    /\ twin.updates < MaxUpdates
    /\ twin' = [twin EXCEPT
                   !.ctx = <<komihash_stream_update(twin.ctx[1], Chunk(twin.total, n),
                                                    n, TwinBuild),
                             komihash_stream_update(twin.ctx[2], Chunk(twin.total, n),
                                                    n, TwinBuild)>>,
                   !.total = @ + n, !.op = "update",
                   !.ret = <<Zero64, Zero64>>, !.updates = @ + 1]
    /\ UNCHANGED <<le, ctxs, UseSeed, total, op, ret, trace, bulk, resumed, inits,
                   updates, one, vec, thr, call>>

\* komihash_stream_final on both contexts.
TwinFinal ==
    /\ twin.op /= "none"
    /\ \E f \in {<<komihash_stream_final(twin.ctx[1], TwinBuild),
                   komihash_stream_final(twin.ctx[2], TwinBuild)>>} :
           twin' = [twin EXCEPT !.ctx = <<f[1].ctx, f[2].ctx>>, !.op = "final",
                                !.ret = <<f[1].ret, f[2].ret>>]
    /\ UNCHANGED <<le, ctxs, UseSeed, total, op, ret, trace, bulk, resumed, inits,
                   updates, one, vec, thr, call>>

NextTwin ==
    \/ \E seed \in Seeds : TwinInit(seed)
    \/ \E n \in TwinLens : TwinUpdate(n)
    \/ TwinFinal

SpecTwin == InitTwin /\ [][NextTwin]_vars

\* ------------------------------------------------------ the tail loaders

\* A tail in memory, before a loader is called on it.
InitTail ==
    /\ le \in BOOLEAN
    /\ StreamIdle
    /\ OneIdle
    /\ VecIdle
    /\ ThreadsIdle
    /\ TwinIdle
    /\ \E pre \in TailPres, tail \in Tails :
           call = [fn |-> "none", arg |-> <<pre, tail>>, out |-> <<>>]

\* kh_lpu64ec_l3( Msg, MsgLen ) on the tail.
TailL3 ==
    /\ call.fn = "none"
    /\ call' = [call EXCEPT
                   !.fn = "kh_lpu64ec_l3",
                   !.out = <<kh_lpu64ec_l3(TailMem(call.arg[1], call.arg[2]), TailPtr,
                                           Len(call.arg[2]), Build(MinBufSize))>>]
    /\ UNCHANGED <<le, ctxs, UseSeed, total, op, ret, trace, bulk, resumed, inits,
                   updates, one, vec, thr, twin>>

\* kh_lpu64ec_nz( Msg, MsgLen ) on the tail, which is not empty.
TailNz ==
    /\ call.fn = "none"
    /\ Len(call.arg[2]) /= 0
    /\ call' = [call EXCEPT
                   !.fn = "kh_lpu64ec_nz",
                   !.out = <<kh_lpu64ec_nz(TailMem(call.arg[1], call.arg[2]), TailPtr,
                                           Len(call.arg[2]), Build(MinBufSize))>>]
    /\ UNCHANGED <<le, ctxs, UseSeed, total, op, ret, trace, bulk, resumed, inits,
                   updates, one, vec, thr, twin>>

\* kh_lpu64ec_l4( Msg, MsgLen ) on the tail.
TailL4 ==
    /\ call.fn = "none"
    /\ call' = [call EXCEPT
                   !.fn = "kh_lpu64ec_l4",
                   !.out = <<kh_lpu64ec_l4(TailMem(call.arg[1], call.arg[2]), TailPtr,
                                           Len(call.arg[2]), Build(MinBufSize))>>]
    /\ UNCHANGED <<le, ctxs, UseSeed, total, op, ret, trace, bulk, resumed, inits,
                   updates, one, vec, thr, twin>>

NextTail ==
    \/ TailL3
    \/ TailNz
    \/ TailL4

SpecTail == InitTail /\ [][NextTail]_vars

\* ------------------------------------- the multiplication and the rounds

\* Four 64-bit values, before any function is called on them.
InitArith ==
    /\ le \in BOOLEAN
    /\ StreamIdle
    /\ OneIdle
    /\ VecIdle
    /\ ThreadsIdle
    /\ TwinIdle
    /\ \E a \in Words, b \in Words, c \in Words, d \in Words2 :
           call = [fn |-> "none", arg |-> <<a, b, c, d>>, out |-> <<>>]

\* The call fn gave out.
Called(fn, out) ==
    /\ call' = [call EXCEPT !.fn = fn, !.out = out]
    /\ UNCHANGED <<le, ctxs, UseSeed, total, op, ret, trace, bulk, resumed, inits,
                   updates, one, vec, thr, twin>>

\* kh_m128( u, v, &rl, &rha ) as each build has it, with u, v and *rha the
\* first three values: out is << *rl, *rha >>.
M128Int128 ==
    /\ call.fn = "none"
    /\ Called("kh_m128", kh_m128(call.arg[1], call.arg[2], call.arg[3]))

M128Umulh ==
    /\ call.fn = "none"
    /\ Called("kh_m128_umulh", kh_m128_umulh(call.arg[1], call.arg[2], call.arg[3]))

M128Umul128 ==
    /\ call.fn = "none"
    /\ Called("kh_m128_umul128", kh_m128_umul128(call.arg[1], call.arg[2], call.arg[3]))

M128Emulu ==
    /\ call.fn = "none"
    /\ Called("kh_m128_emulu", kh_m128_emulu(call.arg[1], call.arg[2], call.arg[3]))

\* KOMIHASH_HASHROUND() with Seed1 and Seed5 the first two values: out is
\* << Seed1, Seed5 >>.
HashRound ==
    /\ call.fn = "none"
    /\ Called("KOMIHASH_HASHROUND", KOMIHASH_HASHROUND(call.arg[1], call.arg[2]))

\* KOMIHASH_HASH16( m ) with Seed1 and Seed5 the first two values and the
\* other two in memory at m.
Hash16 ==
    /\ call.fn = "none"
    /\ Called("KOMIHASH_HASH16",
              KOMIHASH_HASH16(WordsMem(call.arg[3], call.arg[4]), 0, call.arg[1],
                              call.arg[2], Build(MinBufSize)))

\* KOMIHASH_HASHFIN() with r1h, r2h and Seed5 the first three values: out is
\* << the value returned >>.
HashFin ==
    /\ call.fn = "none"
    /\ Called("KOMIHASH_HASHFIN",
              <<KOMIHASH_HASHFIN(call.arg[1], call.arg[2], call.arg[3])>>)

\* komirand( &Seed1, &Seed2 ) with the seeds the first two values: out is
\* << the value returned, *Seed1, *Seed2 >>.
Komirand ==
    /\ call.fn = "none"
    /\ \E r \in {komirand(call.arg[1], call.arg[2])} :
           Called("komirand", <<r.ret, r.Seed1, r.Seed2>>)

NextArith ==
    \/ M128Int128
    \/ M128Umulh
    \/ M128Umul128
    \/ M128Emulu
    \/ HashRound
    \/ Hash16
    \/ HashFin
    \/ Komirand

SpecArith == InitArith /\ [][NextArith]_vars

InitVec ==
    /\ le \in BOOLEAN
    /\ StreamIdle
    /\ OneIdle
    /\ ThreadsIdle
    /\ TwinIdle
    /\ CallIdle
    /\ \E g \in GarbageBytes :
           vec = [pc |-> "fill", i |-> 0, j |-> 0, bulkbuf |-> [k \in 1..bulkbc |-> g],
                  Seed1 |-> Zero64, Seed2 |-> Zero64,
                  printed |-> [kind |-> "none", j |-> 0, i |-> 0], out |-> Zero64]

\* for( i = 0; i < bulkbc; i++ ) bulkbuf[ i ] = (uint8_t) i;
FillBulk ==
    /\ vec.pc = "fill"
    /\ vec' = IF vec.i < bulkbc
              THEN [vec EXCEPT !.bulkbuf[vec.i + 1] = vec.i % 256, !.i = vec.i + 1]
              ELSE [vec EXCEPT !.pc = "hash", !.j = 0]
    /\ UNCHANGED <<le, twin, call, ctxs, UseSeed, total, op, ret, trace, bulk, resumed, inits, updates, one, thr>>

\* for( j = 0; j < seedc; j++ ): the header line of the first loop.
HashSeed ==
    /\ vec.pc = "hash"
    /\ vec' = IF vec.j < seedc
              THEN [vec EXCEPT !.pc = "strs", !.i = 0,
                               !.printed = [kind |-> "seed", j |-> vec.j, i |-> 0]]
              ELSE [vec EXCEPT !.pc = "rand", !.j = 0]
    /\ UNCHANGED <<le, twin, call, ctxs, UseSeed, total, op, ret, trace, bulk, resumed, inits, updates, one, thr>>

\* for( i = 0; i < strc; i++ ) printf( .., komihash( s, sl, seeds[ j ]));
HashStr ==
    /\ vec.pc = "strs"
    /\ vec' = IF vec.i < strc
              THEN [vec EXCEPT !.i = vec.i + 1,
                        !.printed = [kind |-> "str", j |-> vec.j, i |-> vec.i],
                        !.out = komihash(strs[vec.i + 1], 0, Len(strs[vec.i + 1]),
                                         seeds[vec.j + 1], Build(KOMIHASH_BUFSIZE))]
              ELSE [vec EXCEPT !.pc = "bulks", !.i = 0]
    /\ UNCHANGED <<le, twin, call, ctxs, UseSeed, total, op, ret, trace, bulk, resumed, inits, updates, one, thr>>

\* for( i = 0; i < bulkc; i++ ) printf( .., komihash( bulkbuf, bulks[ i ], seeds[ j ]));
HashBulk ==
    /\ vec.pc = "bulks"
    /\ vec' = IF vec.i < bulkc
              THEN [vec EXCEPT !.i = vec.i + 1,
                        !.printed = [kind |-> "bulk", j |-> vec.j, i |-> vec.i],
                        !.out = komihash(vec.bulkbuf, 0, bulks[vec.i + 1],
                                         seeds[vec.j + 1], Build(KOMIHASH_BUFSIZE))]
              ELSE [vec EXCEPT !.pc = "hash", !.j = vec.j + 1]
    /\ UNCHANGED <<le, twin, call, ctxs, UseSeed, total, op, ret, trace, bulk, resumed, inits, updates, one, thr>>

\* for( j = 0; j < seedc; j++ ): Seed1 = Seed2 = seeds[ j ], the second loop.
RandSeed ==
    /\ vec.pc = "rand"
    /\ vec' = IF vec.j < seedc
              THEN [vec EXCEPT !.pc = "rands", !.i = 0,
                               !.printed = [kind |-> "seed", j |-> vec.j, i |-> 0],
                               !.Seed1 = seeds[vec.j + 1], !.Seed2 = seeds[vec.j + 1]]
              ELSE [vec EXCEPT !.pc = "done"]
    /\ UNCHANGED <<le, twin, call, ctxs, UseSeed, total, op, ret, trace, bulk, resumed, inits, updates, one, thr>>

\* for( i = 0; i < 12; i++ ) printf( .., komirand( &Seed1, &Seed2 ));
Rand ==
    /\ vec.pc = "rands"
    /\ \E r \in {komirand(vec.Seed1, vec.Seed2)} :
           vec' = IF vec.i < randc
                  THEN [vec EXCEPT !.i = vec.i + 1, !.out = r.ret,
                                   !.printed = [kind |-> "rand", j |-> vec.j, i |-> vec.i],
                                   !.Seed1 = r.Seed1, !.Seed2 = r.Seed2]
                  ELSE [vec EXCEPT !.pc = "rand", !.j = vec.j + 1]
    /\ UNCHANGED <<le, twin, call, ctxs, UseSeed, total, op, ret, trace, bulk, resumed, inits, updates, one, thr>>

NextVec ==
    \/ FillBulk
    \/ HashSeed
    \/ HashStr
    \/ HashBulk
    \/ RandSeed
    \/ Rand

SpecVec == InitVec /\ [][NextVec]_vars

\* ------------------------------------------------------------ the claims

\* C1: after any sequence of updates, whatever the chunk sizes (empty chunks,
\* chunks that fill the buffer exactly or straddle its end),
\* komihash_stream_final returns what komihash returns for the whole message
\* and the seed of the init, in every build.
StreamEqualsOneShot ==
    op = "final" =>
        \E h \in {komihash(msg, 0, total, UseSeed, Build(KOMIHASH_BUFSIZE))} :
            \A B \in BufSizes : ret[B] = h

\* C1 witness: a final after the last allowed update, of a message longer than
\* the largest buffer, with the bulk loop started in every build.
StreamEqualsOneShotWitness ==
    /\ op = "final"
    /\ updates = MaxUpdates
    /\ total > KOMIHASH_BUFSIZE
    /\ \A B \in BufSizes : ctxs[B].IsHashing = 1

\* C2: a final that follows another final returns the same value, and a final
\* that comes after an earlier final and further updates returns komihash of
\* all the bytes updated since the init: the earlier finals changed nothing.
FinalizerTransparent ==
    [][op' = "final" =>
          /\ (op = "final" => ret' = ret)
          /\ (resumed' =>
                 \E h \in {komihash(Chunk(0, total'), 0, total', UseSeed',
                                     Build(KOMIHASH_BUFSIZE))} :
                     \A B \in BufSizes : ret'[B] = h)]_vars

\* C2 witness: a final after a final and an update, with the bulk loop started.
FinalizerTransparentWitness ==
    /\ op = "final"
    /\ resumed
    /\ \E B \in BufSizes : ctxs[B].IsHashing = 1 /\ ctxs[B].BufFill > 63

\* The hashing state of a context: the lanes, the fill count, the flag and
\* the bytes the buffer holds.
HashingState(ctx) ==
    <<ctx.Seed, ctx.BufFill, ctx.IsHashing, SubSeq(ctx.mem, BufPtr + 1, BufPtr + ctx.BufFill)>>

\* C3: komihash_stream_final leaves Seed[ 0 .. 7 ], BufFill, IsHashing and
\* Buf[ 0 .. BufFill ) as they were, whether IsHashing is false or true.
FinalKeepsHashingState ==
    [][op' = "final" =>
          \A B \in BufSizes : HashingState(ctxs'[B]) = HashingState(ctxs[B])]_vars

\* C3 witness: after a final that found one build not hashing and another
\* hashing with at least one whole block buffered (so final ran the bulk loop).
FinalKeepsHashingStateWitness ==
    /\ op = "final"
    /\ \E B \in BufSizes : ctxs[B].IsHashing = 0 /\ ctxs[B].BufFill > 0
    /\ \E B \in BufSizes : ctxs[B].IsHashing = 1 /\ ctxs[B].BufFill > 63

PadCleared(ctx) == [ctx EXCEPT !.mem = [@ EXCEPT ![5] = 0, ![6] = 0, ![7] = 0, ![8] = 0]]

KomihashPure ==
    [][(one.fn = "komihash"
        /\ one'.MsgLen = one.MsgLen
        /\ one'.UseSeed = one.UseSeed) => one'.ret = one.ret]_vars

\* C5 witness: the second of two calls with the same message and seed, at
\* another place with other bytes around it, the tail loader reading back
\* before the tail.
KomihashPureWitness ==
    /\ one.same
    /\ one.MsgLen > 8
    /\ one.MsgLen < 12

\* The values the README publishes, in the order testvec.c prints them: for
\* each seed the five strings and then the seventeen bulks.
ReadmeVectors == <<
    <<
        W(5, 173, 150, 8, 2, 144, 58, 157),
        W(209, 87, 35, 82, 29, 60, 55, 177),
        W(70, 124, 170, 40, 234, 61, 167, 166),
        W(241, 142, 103, 188, 144, 196, 50, 51),
        W(44, 81, 79, 110, 93, 203, 17, 203),
        W(122, 151, 23, 233, 238, 164, 190, 139),
        W(165, 100, 105, 86, 76, 46, 160, 255),
        W(0, 180, 49, 58, 36, 67, 19, 6),
        W(100, 194, 173, 150, 1, 63, 112, 254),
        W(122, 56, 136, 188, 149, 84, 83, 100),
        W(199, 126, 2, 237, 75, 32, 27, 154),
        W(37, 109, 116, 53, 3, 3, 161, 186),
        W(89, 96, 156, 113, 105, 123, 185, 223),
        W(54, 235, 158, 106, 76, 44, 94, 75),
        W(141, 213, 108, 51, 40, 80, 186, 166),
        W(203, 183, 34, 25, 43, 53, 57, 153),
        W(144, 176, 126, 33, 88, 248, 140, 192),
        W(36, 201, 98, 23, 1, 96, 55, 65),
        W(29, 76, 29, 151, 202, 104, 67, 52),
        W(209, 164, 37, 213, 48, 101, 34, 135),
        W(114, 98, 59, 227, 66, 194, 10, 181),
        W(148, 195, 219, 220, 165, 157, 223, 87)
    >>,
    <<
        W(108, 230, 106, 46, 141, 73, 121, 165),
        W(91, 29, 160, 180, 53, 69, 209, 150),
        W(38, 175, 145, 66, 19, 208, 201, 21),
        W(98, 217, 202, 27, 115, 37, 12, 181),
        W(144, 171, 124, 159, 131, 28, 217, 64),
        W(132, 174, 78, 182, 91, 150, 97, 126),
        W(172, 238, 188, 50, 163, 192, 217, 228),
        W(218, 161, 169, 14, 203, 149, 246, 248),
        W(236, 142, 179, 239, 74, 243, 128, 180),
        W(7, 4, 91, 211, 26, 187, 163, 76),
        W(213, 246, 25, 251, 46, 98, 196, 174),
        W(90, 51, 111, 210, 196, 195, 154, 190),
        W(14, 135, 11, 70, 35, 238, 168, 236),
        W(229, 82, 237, 214, 191, 65, 157, 29),
        W(55, 209, 112, 221, 203, 18, 35, 230),
        W(28, 216, 158, 112, 142, 80, 152, 182),
        W(118, 84, 144, 86, 156, 205, 119, 242),
        W(25, 233, 215, 123, 134, 208, 30, 232),
        W(37, 248, 62, 229, 32, 193, 210, 65),
        W(214, 0, 116, 23, 9, 28, 212, 192),
        W(62, 73, 194, 211, 114, 123, 156, 201),
        W(178, 179, 64, 94, 229, 214, 95, 76)
    >>,
    <<
        W(95, 25, 123, 48, 188, 236, 30, 69),
        W(167, 97, 40, 3, 34, 187, 118, 152),
        W(17, 195, 28, 202, 186, 165, 36, 241),
        W(58, 67, 183, 245, 130, 129, 194, 41),
        W(207, 249, 11, 4, 102, 183, 227, 162),
        W(138, 181, 63, 69, 204, 147, 21, 227),
        W(234, 96, 110, 67, 209, 151, 108, 207),
        W(136, 155, 47, 44, 238, 203, 236, 115),
        W(172, 190, 193, 136, 108, 210, 50, 117),
        W(87, 195, 175, 253, 27, 113, 252, 219),
        W(126, 246, 186, 73, 163, 176, 104, 195),
        W(73, 219, 202, 98, 237, 90, 29, 223),
        W(25, 40, 72, 72, 68, 129, 232, 192),
        W(66, 11, 67, 165, 237, 186, 27, 215),
        W(214, 232, 64, 10, 157, 226, 76, 227),
        W(190, 162, 145, 178, 37, 255, 56, 77),
        W(14, 201, 64, 98, 178, 240, 105, 96),
        W(250, 97, 50, 114, 236, 212, 153, 133),
        W(118, 240, 187, 56, 11, 194, 7, 190),
        W(74, 251, 78, 8, 202, 119, 192, 32),
        W(65, 15, 156, 18, 154, 216, 138, 234),
        W(6, 108, 123, 37, 244, 245, 105, 174)
    >>
>>

\* The vectors C6 names: the seed's index j, what is hashed, and the value.
ClaimVectors ==
    {[kind |-> "str", j |-> 0, i |-> 0, out |-> W(5, 173, 150, 8, 2, 144, 58, 157)],
     [kind |-> "str", j |-> 0, i |-> 1, out |-> W(209, 87, 35, 82, 29, 60, 55, 177)],
     [kind |-> "str", j |-> 0, i |-> 2, out |-> W(70, 124, 170, 40, 234, 61, 167, 166)],
     [kind |-> "str", j |-> 0, i |-> 4, out |-> W(44, 81, 79, 110, 93, 203, 17, 203)],
     [kind |-> "bulk", j |-> 0, i |-> 16, out |-> W(148, 195, 219, 220, 165, 157, 223, 87)],
     [kind |-> "str", j |-> 1, i |-> 0, out |-> W(108, 230, 106, 46, 141, 73, 121, 165)],
     [kind |-> "bulk", j |-> 2, i |-> 10, out |-> W(190, 162, 145, 178, 37, 255, 56, 77)]}

\* C6: every value of komihash that testvec.c prints is the one the README
\* publishes for it, and the seven vectors named are among them: the strings of
\* 32, 25, 16 and 7 characters and the bulk of 256 bytes with seed 0, the
\* string of 32 characters with seed 0x0123456789ABCDEF, the bulk of 56 bytes
\* with seed 0x100.
TestVectorsMatch ==
    /\ vec.printed.kind = "str" =>
           vec.out = ReadmeVectors[vec.printed.j + 1][vec.printed.i + 1]
    /\ vec.printed.kind = "bulk" =>
           vec.out = ReadmeVectors[vec.printed.j + 1][strc + vec.printed.i + 1]
    /\ \A v \in ClaimVectors :
           (vec.printed.kind = v.kind /\ vec.printed.j = v.j /\ vec.printed.i = v.i)
               => vec.out = v.out

\* C6 witness: the bulk of 56 bytes was hashed with seed 0x100 and printed.
TestVectorsMatchWitness ==
    /\ vec.printed = [kind |-> "bulk", j |-> 2, i |-> 10]
    /\ bulks[11] = 56
    /\ vec.out = W(190, 162, 145, 178, 37, 255, 56, 77)

\* The eight outputs of komirand the README lists for Seed1 = Seed2 = 0.
KomirandReadme == <<
    W(170, 170, 170, 170, 170, 170, 170, 170),
    W(255, 255, 255, 255, 255, 255, 255, 254),
    W(73, 36, 146, 73, 36, 146, 73, 16),
    W(186, 235, 174, 186, 235, 174, 186, 0),
    W(64, 12, 98, 204, 71, 39, 73, 107),
    W(53, 169, 105, 23, 62, 143, 146, 91),
    W(219, 71, 246, 186, 233, 162, 71, 173),
    W(152, 224, 246, 206, 206, 103, 17, 254)
>>

\* C7: starting from Seed1 = Seed2 = 0, the first eight calls of komirand
\* return the eight published values, in order.
KomirandMatches ==
    (vec.printed.kind = "rand" /\ vec.printed.j = 0 /\ vec.printed.i < Len(KomirandReadme))
        => vec.out = KomirandReadme[vec.printed.i + 1]

\* C7 witness: the eighth output for seed 0 was printed.
KomirandMatchesWitness ==
    /\ vec.printed = [kind |-> "rand", j |-> 0, i |-> 7]
    /\ seeds[1] = Zero64
    /\ vec.out = W(152, 224, 246, 206, 206, 103, 17, 254)

\* The little-endian composition sum( p[ i ] << 8 * i ) of 4 and of 8 bytes.
LittleEndian32(mem, p) == <<mem[p + 1], mem[p + 2], mem[p + 3], mem[p + 4]>>

LittleEndian64(mem, p) ==
    <<mem[p + 1], mem[p + 2], mem[p + 3], mem[p + 4],
      mem[p + 5], mem[p + 6], mem[p + 7], mem[p + 8]>>

\* The offsets in a context's memory the loads are tried at.
LoadOffsets == 0..(2 * PbSize)

\* C8: on either host byte order kh_lu32ec and kh_lu64ec return the
\* little-endian composition of the bytes they load, and the streamed hash on
\* this host is the value komihash returns on a host of the other byte order.
EndianInvariant ==
    /\ \A B \in BufSizes : \A p \in LoadOffsets :
           /\ kh_lu32ec(ctxs[B].mem, p, Build(B)) = LittleEndian32(ctxs[B].mem, p)
           /\ kh_lu64ec(ctxs[B].mem, p, Build(B)) = LittleEndian64(ctxs[B].mem, p)
    /\ op = "final" =>
           \E h \in {komihash(msg, 0, total, UseSeed, [le |-> ~le, B |-> KOMIHASH_BUFSIZE])} :
               \A B \in BufSizes : ret[B] = h

\* C8 witness: a final on a big-endian host whose native load of the first
\* eight buffered bytes is not their little-endian composition.
EndianInvariantWitness ==
    /\ ~le
    /\ op = "final"
    /\ total > KOMIHASH_BUFSIZE
    /\ \E B \in BufSizes :
           NativeLoad(ctxs[B].mem, BufPtr, 8, Build(B)) /= LittleEndian64(ctxs[B].mem, BufPtr)

\* C9: komihash_stream_final returns the same value in the builds with the
\* smaller buffers as in the build with the default KOMIHASH_BUFSIZE, after
\* the same calls.
BufSizeIndependent ==
    op = "final" => \A B \in BufSizes : ret[B] = ret[KOMIHASH_BUFSIZE]

\* C9 witness: a final where the build with the smallest buffer has run the
\* bulk loop and the default build has not, holding more bytes than the
\* smallest buffer can.
BufSizeIndependentWitness ==
    /\ op = "final"
    /\ ctxs[MinBufSize].IsHashing = 1
    /\ ctxs[KOMIHASH_BUFSIZE].IsHashing = 0
    /\ ctxs[KOMIHASH_BUFSIZE].BufFill > MinBufSize

\* C10: komihash with MsgLen = 0 reads no byte (the pointer may be null) and
\* returns KOMIHASH_HASHFIN() of r1h = Seed1, r2h = Seed5, the pair the seed
\* alone initialises, with nothing mixed in.
ZeroInputTotal ==
    (one.fn = "komihash" /\ one.MsgLen = 0) =>
        /\ one.reads = {}
        /\ one.ret = Let(SeedInit(one.UseSeed),
                         LAMBDA s : KOMIHASH_HASHFIN(s[1], s[2], s[2]))

\* C10 witness: komihash( 0, 0, seed ) was called with a seed other than 0.
ZeroInputTotalWitness ==
    /\ one.fn = "komihash"
    /\ one.null
    /\ one.MsgLen = 0
    /\ one.UseSeed /= Zero64

\* C11: every byte komihash reads, the back-reads of the padded tail loaders
\* (Msg[ -3 ], Msg[ -4 ] of the tail) included, lies inside Msg[ 0 .. n ): no
\* byte before the message and no byte at or after its end is read.
KomihashReadsInside ==
    one.fn = "komihash" =>
        one.reads \subseteq {one.Msg + k : k \in 0..(one.MsgLen - 1)}

\* C11 witness: a message of 32 bytes, kept 9 bytes into the caller's memory,
\* was hashed: komihash_epi called kh_lpu64ec_l4 at Msg + 32 with no bytes
\* left, which read the four bytes before that, the last four of the message.
KomihashReadsInsideWitness ==
    /\ one.fn = "komihash"
    /\ one.MsgLen = 32
    /\ one.Msg = 9
    /\ kh_lpu64ec_l4_reads(one.Msg + 32, 0) = (one.Msg + 28)..(one.Msg + 31)
    /\ (one.Msg + 28)..(one.Msg + 31) \subseteq one.reads

\* C12: on an initialised context, in any state it can be in,
\* komihash_stream_update( ctx, p, 0 ) reads no byte of p (p may be null: here
\* no memory at all is behind it), runs no bulk loop, copies nothing, and
\* leaves Buf, Seed[ 0 .. 7 ], BufFill and IsHashing as they were.
EmptyUpdateNoOp ==
    op /= "none" =>
        \A B \in BufSizes :
            \E u \in {komihash_stream_update_run(ctxs[B], NullMem, 0, Build(B))} :
                /\ u.reads = {}
                /\ u.runs = <<>>
                /\ u.CopyLen = 0
                /\ Buf(u.ctx) = Buf(ctxs[B])
                /\ u.ctx.Seed = ctxs[B].Seed
                /\ u.ctx.BufFill = ctxs[B].BufFill
                /\ u.ctx.IsHashing = ctxs[B].IsHashing

\* C12 witness: an update of no bytes was called on a session that had the
\* bulk loop started and a byte buffered, and did nothing.
EmptyUpdateNoOpWitness ==
    /\ op = "update"
    /\ \A B \in BufSizes :
           /\ trace[B] = NoTrace
           /\ ctxs[B].IsHashing = 1
           /\ ctxs[B].BufFill > 0
           /\ bulk[B] > 0

\* C13: two threads that each run init, update and final on a context of
\* their own interfere with each other under no interleaving of their steps:
\* the value a thread's final returns is komihash of that thread's own bytes
\* with its own seed, and a step of one thread changes nothing in the
\* context of the other.
ThreadsIndependent ==
    /\ [](\A t \in Threads :
             thr.loc[t].pc = "done" =>
                 thr.loc[t].ret =
                     komihash(ThreadChunk(t, 0, thr.loc[t].total), 0, thr.loc[t].total,
                              ThreadSeed(t), ThreadBuild))
    /\ [][\A t \in Threads :
              thr'.loc[t] = thr.loc[t] => thr'.ctx[t] = thr.ctx[t]]_vars

\* C13 witness: both threads are done, each after two updates that made its
\* context flush its buffer, and they returned different values.
ThreadsIndependentWitness ==
    /\ \A t \in Threads :
           /\ thr.loc[t].pc = "done"
           /\ thr.loc[t].updates = 2
           /\ thr.ctx[t].IsHashing = 1
    /\ thr.loc[1].total = 2 * MinBufSize + 1
    /\ thr.loc[2].total = 2 * MinBufSize - 2
    /\ thr.loc[1].ret /= thr.loc[2].ret

HashingHoldsLanes ==
    \A B \in BufSizes :
        (op \in {"update", "final"} /\ ctxs[B].IsHashing /= 0) =>
            \E consumed \in {64 * bulk[B]} :
                /\ consumed % 64 = 0
                /\ consumed >= 128
                /\ consumed + ctxs[B].BufFill = total
                /\ ctxs[B].Seed =
                       KOMIHASH_HASHLOOP64(msg, LoopVars(0, consumed,
                                                         Lanes(SeedInit(UseSeed))),
                                           Build(B)).S
                /\ SubSeq(Buf(ctxs[B]), 1, ctxs[B].BufFill) =
                       SubSeq(msg, consumed + 1, total)

\* C15 witness: after two updates the build with the least buffer has filled
\* it up and run the bulk loop over it and over the rest of the input, and
\* holds a tail, while the build with the largest buffer has consumed less.
HashingHoldsLanesWitness ==
    /\ op = "update"
    /\ ctxs[MinBufSize].IsHashing = 1
    /\ ctxs[KOMIHASH_BUFSIZE].IsHashing = 1
    /\ bulk[MinBufSize] >= 4
    /\ bulk[KOMIHASH_BUFSIZE] < bulk[MinBufSize]
    /\ ctxs[MinBufSize].BufFill > 0

\* C16: after an init and after every update, whatever its length, BufFill
\* is between 0 and KOMIHASH_BUFSIZE - 1: the buffer is never left full.  An
\* update that finds bytes in the buffer and brings enough to reach its end
\* fills it up and runs the bulk loop over all of it in the same call.
BufferNeverFull ==
    [][op' /= "none" =>
          \A B \in BufSizes :
              /\ ctxs'[B].BufFill \in 0..(B - 1)
              /\ (/\ op' = "update"
                  /\ ctxs[B].BufFill > 0
                  /\ ctxs[B].BufFill + (total' - total) >= B)
                 => /\ trace'[B].CopyLen = B - ctxs[B].BufFill
                    /\ Len(trace'[B].runs) >= 1
                    /\ trace'[B].runs[1].src = "Buf"
                    /\ trace'[B].runs[1].Msg = BufPtr
                    /\ trace'[B].runs[1].MsgLen = B
                    /\ trace'[B].runs[1].left = 0]_vars

\* C16 witness: an update brought exactly the bytes that were missing to fill
\* the least buffer, which was drained in that call and left empty.
BufferNeverFullWitness ==
    /\ op = "update"
    /\ trace[MinBufSize].CopyLen > 0
    /\ trace[MinBufSize].CopyLen = Cardinality(trace[MinBufSize].reads)
    /\ Len(trace[MinBufSize].runs) = 1
    /\ ctxs[MinBufSize].BufFill = 0

\* An update of n bytes runs the bulk loop on the context: it fills the
\* buffer up, or it finds the buffer empty and brings more than 127 bytes.
LoopWillRun(ctx, n, B) ==
    \/ ctx.BufFill > 0 /\ ctx.BufFill + n >= B
    \/ ctx.BufFill = 0 /\ n > 127

\* C17: IsHashing is 0 after an init.  An update sets it to 1 when it runs
\* the bulk loop, which it does on more than 127 bytes in one piece, the
\* buffer it has just filled up or the caller's input when the buffer is
\* empty, and on nothing less; no other update changes it.  Once it is 1,
\* update and final leave it so; only an init sets it back to 0.
IsHashingLatch ==
    [][\A B \in BufSizes :
          /\ op' = "init" => ctxs'[B].IsHashing = 0
          /\ op' = "final" => ctxs'[B].IsHashing = ctxs[B].IsHashing
          /\ op' = "update" =>
                 /\ ctxs'[B].IsHashing \in {0, 1}
                 /\ ctxs[B].IsHashing = 1 => ctxs'[B].IsHashing = 1
                 /\ ctxs[B].IsHashing = 0 =>
                        (ctxs'[B].IsHashing = 1
                            <=> LoopWillRun(ctxs[B], total' - total, B))
                 /\ (trace'[B].runs /= <<>>)
                        <=> LoopWillRun(ctxs[B], total' - total, B)
                 /\ \A i \in 1..Len(trace'[B].runs) :
                        /\ trace'[B].runs[i].MsgLen > 127
                        /\ trace'[B].runs[i].src = "Buf"
                               => /\ i = 1
                                  /\ trace'[B].CopyLen > 0
                                  /\ trace'[B].runs[i].MsgLen = B
                        /\ trace'[B].runs[i].src = "Msg0"
                               => \/ i = 1 /\ ctxs[B].BufFill = 0
                                  \/ i = 2 /\ trace'[B].runs[1].src = "Buf"]_vars

\* C17 witness: the second update filled up the least buffer, whose build ran
\* the bulk loop for the first time and set IsHashing, while the build with
\* the largest buffer, holding more than 127 bytes, still has it 0.
IsHashingLatchWitness ==
    /\ op = "update"
    /\ ctxs[MinBufSize].IsHashing = 1
    /\ trace[MinBufSize].runs /= <<>>
    /\ bulk[MinBufSize] = Iterations(trace[MinBufSize].runs)
    /\ trace[MinBufSize].runs[1].src = "Buf"
    /\ ctxs[KOMIHASH_BUFSIZE].IsHashing = 0
    /\ ctxs[KOMIHASH_BUFSIZE].BufFill > 127

\* The context in the middle of an update of the n bytes of Msg0 that fills
\* the buffer up: the first B - BufFill bytes of the input copied behind the
\* buffered ones, the bulk loop run over the whole buffer, and BufFill 0.
Drained(ctx, Msg0, B, bc) ==
    Let(memcpy(ctx.mem, BufPtr + ctx.BufFill, Msg0, 0, B - ctx.BufFill), LAMBDA mem2 :
        [ctx EXCEPT !.mem = mem2,
                    !.Seed = KOMIHASH_HASHLOOP64(mem2, LoopVars(BufPtr, B, UpdateLanes(ctx)),
                                                 bc).S,
                    !.IsHashing = 1,
                    !.BufFill = 0])

\* C18: an update that finds BufFill > 0 and brings n bytes with
\* BufFill + n >= KOMIHASH_BUFSIZE copies exactly KOMIHASH_BUFSIZE - BufFill
\* bytes of the input to the end of Buf; the bulk loop then consumes the whole
\* buffer, KOMIHASH_BUFSIZE / 64 blocks in their order with nothing left,
\* before it runs on any byte of the rest of the input; BufFill becomes 0; and
\* the rest of the input is then treated as an update of its own on the empty
\* buffer would treat it.
FlushThenRest ==
    [][\A B \in BufSizes :
          (/\ op' = "update"
           /\ ctxs[B].BufFill > 0
           /\ ctxs[B].BufFill + (total' - total) >= B)
          => \E n \in {total' - total}, CopyLen \in {B - ctxs[B].BufFill} :
                 /\ trace'[B].CopyLen = CopyLen
                 /\ trace'[B].runs[1].src = "Buf"
                 /\ trace'[B].runs[1].MsgLen = B
                 /\ trace'[B].runs[1].blocks = [k \in 1..(B \div 64) |-> BufPtr + 64 * (k - 1)]
                 /\ trace'[B].runs[1].left = 0
                 /\ \A i \in 2..Len(trace'[B].runs) :
                        /\ trace'[B].runs[i].src = "Msg0"
                        /\ trace'[B].runs[i].Msg = CopyLen
                 /\ n = CopyLen => ctxs'[B].BufFill = 0
                 /\ ctxs'[B] =
                        komihash_stream_update(
                            Drained(ctxs[B], Chunk(total, n), B, Build(B)),
                            Chunk(total + CopyLen, n - CopyLen), n - CopyLen, Build(B))]_vars

\* C18 witness: an update filled the least buffer up and brought 129 bytes
\* more: the bulk loop ran over the buffer, then over two blocks of the rest,
\* and the last byte was buffered.
FlushThenRestWitness ==
    /\ op = "update"
    /\ trace[MinBufSize].CopyLen > 0
    /\ Len(trace[MinBufSize].runs) = 2
    /\ trace[MinBufSize].runs[2].MsgLen = MinBufSize + 1
    /\ ctxs[MinBufSize].BufFill = 1

\* C19 as claimed: whenever komihash_stream_update runs the bulk loop on a
\* span of more than 127 bytes, the loop leaves between 1 and 64 bytes of the
\* span unconsumed.
LoopLeavesTail ==
    \A B \in BufSizes :
        \A i \in 1..Len(trace[B].runs) :
            trace[B].runs[i].site = "update" => trace[B].runs[i].left \in 1..64

\* C19 as amended: whenever komihash_stream_update runs the bulk loop on a
\* span of more than 127 bytes, the loop leaves the span's length modulo 64
\* unconsumed, which is between 0 and 63 bytes: a span of a multiple of 64
\* bytes is consumed whole.
LoopLeavesRemainder ==
    \A B \in BufSizes :
        \A i \in 1..Len(trace[B].runs) :
            trace[B].runs[i].site = "update" =>
                /\ trace[B].runs[i].MsgLen > 127
                /\ trace[B].runs[i].left = trace[B].runs[i].MsgLen % 64
                /\ trace[B].runs[i].left \in 0..63

\* C19 witness: an update brought 128 bytes to empty buffers; the bulk loop
\* ran on the caller's 128 bytes and left none of them, and nothing was
\* buffered.
LoopLeavesRemainderWitness ==
    /\ op = "update"
    /\ \A B \in BufSizes :
           /\ Len(trace[B].runs) = 1
           /\ trace[B].runs[1].site = "update"
           /\ trace[B].runs[1].src = "Msg0"
           /\ trace[B].runs[1].MsgLen = 128
           /\ trace[B].runs[1].left = 0
           /\ ctxs[B].BufFill = 0

\* C20: at every expansion of KOMIHASH_HASHLOOP64, in komihash, in
\* komihash_stream_update and in komihash_stream_final, MsgLen is at least 64
\* when the loop is entered, so that "MsgLen -= 64" never goes below zero;
\* the body runs floor( MsgLen / 64 ) times, on blocks at ascending
\* addresses 64 bytes apart from Msg on, and MsgLen mod 64 bytes are left.
LoopEntryAtLeast64 ==
    \A B \in BufSizes :
        \A i \in 1..Len(trace[B].runs) :
            \E run \in {trace[B].runs[i]} :
                /\ run.site \in {"komihash", "update", "final"}
                /\ run.MsgLen >= 64
                /\ ~run.wrapped
                /\ run.blocks = [k \in 1..(run.MsgLen \div 64) |-> run.Msg + 64 * (k - 1)]
                /\ run.left = run.MsgLen % 64

\* C20 witness: a final on two builds that hold 192 bytes: the one with the
\* least buffer is hashing with 64 bytes buffered and ran the bulk loop in
\* komihash_stream_final, the one with the largest buffer is not hashing and
\* ran it in komihash, over all 192 bytes.
LoopEntryAtLeast64Witness ==
    /\ op = "final"
    /\ Len(trace[MinBufSize].runs) = 1
    /\ trace[MinBufSize].runs[1].site = "final"
    /\ trace[MinBufSize].runs[1].MsgLen = 64
    /\ Len(trace[KOMIHASH_BUFSIZE].runs) = 1
    /\ trace[KOMIHASH_BUFSIZE].runs[1].site = "komihash"
    /\ trace[KOMIHASH_BUFSIZE].runs[1].MsgLen = 192
    /\ Len(trace[KOMIHASH_BUFSIZE].runs[1].blocks) = 3

\* C21: every call of komihash_stream_update returns: its while( MsgLen > 127 )
\* loop runs at most twice, at most once over the filled buffer and at most
\* once over the caller's input, no run of the bulk loop goes past the end of
\* its span, and the runs of the bulk loop's body in the call are at most
\* floor( ( BufFill + MsgLen ) / 64 ), BufFill being the one before the call.
UpdateTerminates ==
    [][(op' = "update" /\ updates' = updates + 1) =>
          \A B \in BufSizes :
              \E runs \in {trace'[B].runs} :
                  /\ Len(runs) <= 2
                  /\ Cardinality({i \in 1..Len(runs) : runs[i].src = "Buf"}) <= 1
                  /\ Cardinality({i \in 1..Len(runs) : runs[i].src = "Msg0"}) <= 1
                  /\ \A i \in 1..Len(runs) : ~runs[i].wrapped /\ runs[i].left < 64
                  /\ Iterations(runs)
                        <= (ctxs[B].BufFill + (total' - total)) \div 64]_vars

\* C21 witness: an update that made the loop run twice on the build with the
\* least buffer, first over the buffer and then over the rest of the input,
\* two blocks each.
UpdateTerminatesWitness ==
    /\ op = "update"
    /\ Len(trace[MinBufSize].runs) = 2
    /\ trace[MinBufSize].runs[1].src = "Buf"
    /\ trace[MinBufSize].runs[2].src = "Msg0"
    /\ Len(trace[MinBufSize].runs[1].blocks) = 2
    /\ Len(trace[MinBufSize].runs[2].blocks) = 2

\* The offsets in komihash_stream_t of Buf[ from .. to - 1 ].
BufRange(from, to) == (BufPtr + from)..(BufPtr + to - 1)

FinalForgetsHistory ==
    twin.op = "final" =>
        /\ twin.ret[1] = twin.ret[2]
        /\ twin.ret[1] = komihash(Chunk(0, twin.total), 0, twin.total, twin.UseSeed,
                                  TwinBuild)

\* C23 witness: fresh memory and a used context, both initialised and given
\* 131 bytes, have returned their hash; they still differ in pb and final
\* read the four bytes that end with the first byte of Buf.
FinalForgetsHistoryWitness ==
    /\ twin.op = "final"
    /\ twin.inits = 1
    /\ twin.total = MinBufSize + 3
    /\ twin.ctx[2].IsHashing = 1
    /\ twin.ctx[2].BufFill = 3
    /\ pb(twin.ctx[1]) /= pb(twin.ctx[2])
    /\ SubSeq(pb(twin.ctx[2]), 5, 8) = <<0, 0, 0, 0>>

\* The value 2^( 8 n ) + sum of p[ i ] * 2^( 8 i ) for the n bytes p of a tail:
\* the bytes in their order, the byte 1 after them, zeros above it.
Padded(tail) ==
    [i \in 1..8 |-> IF i <= Len(tail) THEN tail[i]
                    ELSE IF i = Len(tail) + 1 THEN 1 ELSE 0]

TailLoaders == {"kh_lpu64ec_l3", "kh_lpu64ec_nz", "kh_lpu64ec_l4"}

\* C24: kh_lpu64ec_l3, kh_lpu64ec_nz and kh_lpu64ec_l4 return the same value
\* for a tail of n < 8 bytes, 2^( 8 n ) + sum of p[ i ] * 2^( 8 i ), whatever
\* the bytes before the tail are.
TailLoadersAgree ==
    call.fn \in TailLoaders => call.out = <<Padded(call.arg[2])>>

\* C24 witness: kh_lpu64ec_l4 was called on the six bytes 1, 1, 0, 0, 0, 0
\* that follow four bytes 255, and gave 0x0001000000000101.
TailLoadersAgreeWitness ==
    /\ call.fn = "kh_lpu64ec_l4"
    /\ call.arg = <<(<<255, 255, 255, 255>>), (<<1, 1, 0, 0, 0, 0>>)>>
    /\ call.out = <<(<<1, 1, 0, 0, 0, 0, 1, 0>>)>>

\* What a padded loader returns for a tail: fn names the loader, l is
\* KOMIHASH_LITTLE_ENDIAN, pre the four bytes before the tail.
TailValue(fn, l, pre, tail) ==
    IF fn = "kh_lpu64ec_l3"
    THEN kh_lpu64ec_l3(TailMem(pre, tail), TailPtr, Len(tail), [le |-> l, B |-> MinBufSize])
    ELSE IF fn = "kh_lpu64ec_nz"
    THEN kh_lpu64ec_nz(TailMem(pre, tail), TailPtr, Len(tail), [le |-> l, B |-> MinBufSize])
    ELSE kh_lpu64ec_l4(TailMem(pre, tail), TailPtr, Len(tail), [le |-> l, B |-> MinBufSize])

\* The padded values the loaders give: << l, tail, value >> for every byte
\* order l, every tail, every loader that takes it and all bytes before it.
TailValues ==
    UNION {{<<l, tail, TailValue(fn, l, pre, tail)>> :
               l \in BOOLEAN, pre \in TailPres,
               fn \in (IF tail = <<>> THEN TailLoaders \ {"kh_lpu64ec_nz"}
                       ELSE TailLoaders)} :
           tail \in Tails}

\* C25: two tails of fewer than 8 bytes that differ in their length or in a
\* byte have different padded values, whichever loaders load them and
\* whatever precedes them; so a tail and the same tail with zero bytes
\* added have.
PaddedInjective ==
    call.fn \in TailLoaders =>
        \A tail \in Tails :
            tail /= call.arg[2] => <<le, tail, call.out[1]>> \notin TailValues

\* C25 witness: kh_lpu64ec_nz has loaded the tail 0, 0, which differs from
\* the tails 0 and 0, 0, 0 in length only.
PaddedInjectiveWitness ==
    /\ call.fn = "kh_lpu64ec_nz"
    /\ call.arg[2] = <<0, 0>>
    /\ call.out = <<(<<0, 0, 1, 0, 0, 0, 0, 0>>)>>
    /\ {<<0>>, <<0, 0, 0>>} \subseteq Tails

\* C26: in every call of komihash and of komihash_stream_final, komihash_epi
\* is entered with at most 63 bytes, kh_lpu64ec_l3 and kh_lpu64ec_l4 are
\* called with a length in 0 .. 7 and kh_lpu64ec_nz with one in 1 .. 7, and
\* every shift count the loaders use lies in 0 .. 63.
TailCallsInRange ==
    one.fn /= "none" =>
        /\ \A n \in one.made.epi : n >= 0 /\ n <= 63
        /\ \A c \in one.made.tail :
               /\ c.MsgLen >= 0 /\ c.MsgLen <= 7
               /\ c.fn = "kh_lpu64ec_nz" => c.MsgLen >= 1
               /\ \A s \in c.shifts : s >= 0 /\ s <= 63

\* C26 witness: komihash_stream_oneshot of 128 + 63 bytes: komihash_stream_final
\* entered komihash_epi with 63 bytes, which called kh_lpu64ec_l4 with 7 and
\* shifted by 56 and by 8.
TailCallsInRangeWitness ==
    /\ one.fn = "komihash_stream_oneshot"
    /\ one.MsgLen = 191
    /\ one.made.epi = {63}
    /\ one.made.tail = {[fn |-> "kh_lpu64ec_l4", MsgLen |-> 7, shifts |-> {56, 8}]}

\* C27: for a message of 16 to 31 bytes komihash returns, from its own
\* "if( MsgLen < 32 )" block, what komihash_epi returns for the same message
\* when it is started from the Seed1 and Seed5 komihash derives from the seed.
InlineEqualsEpilogue ==
    (one.fn = "komihash" /\ one.MsgLen >= 16 /\ one.MsgLen <= 31) =>
        \A place \in Places :
            place.pre = one.pre =>
                \E s \in {SeedInit(one.UseSeed)} :
                    one.ret = komihash_epi(Embed(place, one.MsgLen), one.Msg, one.MsgLen,
                                           s[1], s[2], Build(KOMIHASH_BUFSIZE))

\* C27 witness: komihash has hashed 24 bytes with the non-zero seed, which
\* takes the 8-byte load and a padded tail of no bytes.
InlineEqualsEpilogueWitness ==
    /\ one.fn = "komihash"
    /\ one.MsgLen = 24
    /\ one.UseSeed /= Zero64
    /\ one.made.tail = {TailCall("kh_lpu64ec_l4", 0)}
    /\ one.ret /= Zero64

\* a + b on numbers of as many bytes as a has, from byte i on with the carry c
\* into it; the carry out of the last byte is dropped.
RECURSIVE AddWide(_, _, _, _)
AddWide(a, b, i, c) ==
    IF i > Len(a) THEN <<>>
    ELSE <<(a[i] + b[i] + c) % 256>> \o AddWide(a, b, i + 1, (a[i] + b[i] + c) \div 256)

\* u times the byte b, from byte i of u on with the carry c into it: one byte
\* more than u has.
RECURSIVE TimesByte(_, _, _, _)
TimesByte(u, b, i, c) ==
    IF i > Len(u) THEN <<c>>
    ELSE <<(u[i] * b + c) % 256>> \o TimesByte(u, b, i + 1, (u[i] * b + c) \div 256)

\* u * v * 2^( 8 ( j - 1 ) ) summed over the bytes v[ j ], v[ j + 1 ], .. of v,
\* as a number of 16 bytes: the product of two 64-bit numbers, row by row.
RECURSIVE ProductFrom(_, _, _)
ProductFrom(u, v, j) ==
    IF j > Len(v) THEN [k \in 1..16 |-> 0]
    ELSE Let2(TimesByte(u, v[j], 1, 0), ProductFrom(u, v, j + 1), LAMBDA row, rest :
             AddWide([k \in 1..16 |-> IF k >= j /\ k <= j + 8 THEN row[k - j + 1] ELSE 0],
                     rest, 1, 0))

\* << ( u * v ) mod 2^64, ( rha + floor( u * v / 2^64 ) ) mod 2^64 >>
MulAccumulate(u, v, rha) ==
    Let(ProductFrom(u, v, 1), LAMBDA p : <<Lo64(p), AddWide(rha, Hi64(p), 1, 0)>>)

M128Variants == {"kh_m128", "kh_m128_umulh", "kh_m128_umul128", "kh_m128_emulu"}

\* C28: each variant of kh_m128( u, v, &rl, &rha ) stores the low 64 bits of
\* u * v in *rl and adds the high 64 bits to *rha (mod 2^64), the one built
\* from 32-bit products included.
M128Contract ==
    call.fn \in M128Variants =>
        call.out = MulAccumulate(call.arg[1], call.arg[2], call.arg[3])

\* C28 witness: the variant for 32-bit systems has multiplied 2^64 - 1 by
\* itself, with 1 in *rha: the low half is 1, and the high half 2^64 - 2 added
\* to 1 gives 2^64 - 1.
M128ContractWitness ==
    /\ call.fn = "kh_m128_emulu"
    /\ call.arg[1] = W(255, 255, 255, 255, 255, 255, 255, 255)
    /\ call.arg[2] = W(255, 255, 255, 255, 255, 255, 255, 255)
    /\ call.arg[3] = One64
    /\ call.out = <<One64, W(255, 255, 255, 255, 255, 255, 255, 255)>>

\* One round on the multiplicands u and v with the accumulator acc:
\* << low64( u * v ) xor s5, s5 >> with s5 = ( acc + high64( u * v ) ) mod 2^64.
RoundOf(u, v, acc) ==
    Let(MulAccumulate(u, v, acc), LAMBDA r : <<Xor64(r[1], r[2]), r[2]>>)

\* C29: KOMIHASH_HASH16( m ) with m0 and m1 the two words at m gives
\* S5' = S5 + high64( ( S1 xor m0 ) * ( S5 xor m1 ) ), with the S5 added the one
\* before the round and without m1, and S1' = low64( .. ) xor S5';
\* KOMIHASH_HASHROUND is the same with m0 = m1 = 0; KOMIHASH_HASHFIN does the
\* same on r1h and r2h, then one KOMIHASH_HASHROUND, and returns Seed1.
RoundSemantics ==
    /\ call.fn = "KOMIHASH_HASH16" =>
           call.out = RoundOf(Xor64(call.arg[1], call.arg[3]),
                              Xor64(call.arg[2], call.arg[4]), call.arg[2])
    /\ call.fn = "KOMIHASH_HASHROUND" =>
           call.out = RoundOf(call.arg[1], call.arg[2], call.arg[2])
    /\ call.fn = "KOMIHASH_HASHFIN" =>
           \E a \in {RoundOf(call.arg[1], call.arg[2], call.arg[3])} :
               call.out = <<RoundOf(a[1], a[2], a[2])[1]>>

\* C29 witness: KOMIHASH_HASH16 with Seed1 = Seed5 = 1 on the words 0 and
\* 2^64 - 1: the product 1 * ( 2^64 - 2 ) has no high half, so Seed5 stays 1
\* (not 2^64 - 2), and Seed1 is ( 2^64 - 2 ) xor 1.
RoundSemanticsWitness ==
    /\ call.fn = "KOMIHASH_HASH16"
    /\ call.arg = <<One64, One64, Zero64, W(255, 255, 255, 255, 255, 255, 255, 255)>>
    /\ call.out = <<W(255, 255, 255, 255, 255, 255, 255, 255), One64>>

\* C30: one call komirand( &s1, &s2 ) leaves s2' = s2 + high64( s1 * s2 ) +
\* 0xAAAAAAAAAAAAAAAA (mod 2^64) and s1' = low64( s1 * s2 ) xor s2' in the
\* seeds and returns s1', the product being of the seeds before the call.
KomirandStep ==
    call.fn = "komirand" =>
        \E r \in {MulAccumulate(call.arg[1], call.arg[2], call.arg[2])} :
            \E s2 \in {AddWide(r[2], MASKA, 1, 0)} :
                call.out = <<Xor64(r[1], s2), Xor64(r[1], s2), s2>>

\* C30 witness: komirand on s1 = s2 = 2^64 - 1: the product is
\* ( 2^64 - 2 ) * 2^64 + 1, so s2' = 0xAAAAAAAAAAAAAAA7 and
\* s1' = 0xAAAAAAAAAAAAAAA6.
KomirandStepWitness ==
    /\ call.fn = "komirand"
    /\ call.arg[1] = W(255, 255, 255, 255, 255, 255, 255, 255)
    /\ call.arg[2] = W(255, 255, 255, 255, 255, 255, 255, 255)
    /\ call.out = <<W(170, 170, 170, 170, 170, 170, 170, 166),
                    W(170, 170, 170, 170, 170, 170, 170, 166),
                    W(170, 170, 170, 170, 170, 170, 170, 167)>>

====
